---- MODULE Spec2Model ----
(***************************************************************************)
(* Authentication core of the backend: credential codec (auth_db.py),      *)
(* token codec and issuer (auth_tokens.py), refresh-token ledger           *)
(* (auth_db.py, table refresh_tokens) and the session protocol             *)
(* (auth_routes.py); and two of its clients in main.py: cart, payment      *)
(* intents and checkout, and the chat over websockets.                     *)
(*                                                                         *)
(* Modelling conventions                                                   *)
(*  - A Python str is a sequence of one-character strings, so that         *)
(*    strip(), lower(), str(int) and int(str) are computed, not assumed.   *)
(*  - A token string "h.p.s" is a record of its '.'-separated parts; each  *)
(*    part is a symbolic term.  HMAC-SHA256 is an ideal MAC: the signature *)
(*    of a signing input under a key is the term [key, hdr, body].         *)
(*  - secrets.token_hex(n) and os.urandom(n) are fresh values: the jti of  *)
(*    a minted token is the number of tokens minted before it, plus one;   *)
(*    the salt of a stored password is the id of its row.                  *)
(*  - time.time() is the variable now (whole seconds, non-decreasing).     *)
(***************************************************************************)
EXTENDS Integers, Sequences, FiniteSets, TLC

VARIABLES
    now,             \* the wall clock, int(time.time())
    users,           \* table users of unihub_auth.db: a sequence of rows, by insertion
    refresh_tokens,  \* table refresh_tokens of unihub_auth.db: a set of rows
    issued,          \* every token string minted so far (held by some client)
    ticks,           \* number of clock advances taken (bounds the model)
    directs,         \* number of direct ledger saves taken (bounds the model)
    last,            \* the last completed operation and its response
    reqs,            \* in-flight /auth/refresh requests (step-level specification)
    codec,           \* the token codec's last call: its payload, token and result
    CART,            \* main.CART: user id -> list of cart items
    ORDERS,          \* main.ORDERS: list of orders
    PAYMENT_INTENTS, \* main.PAYMENT_INTENTS: list of payment intents
    MESSAGES,        \* main.MESSAGES: list of chat messages
    active_connections, \* CHAT_WS_MANAGER.active_connections: user id -> list of websockets
    websockets       \* every websocket of /ws/chat: its state and what its client received

vars == <<now, users, refresh_tokens, issued, ticks, directs, last, reqs, codec,
         CART, ORDERS, PAYMENT_INTENTS, MESSAGES, active_connections, websockets>>

----------------------------------------------------------------------------
(* Bounds of the model *)

MaxTicks == 1
MaxSessions == 2
MaxDirect == 2

(* Program constants *)

ACCESS_TOKEN_TTL_SECONDS == 1800
REFRESH_TOKEN_TTL_SECONDS == 604800
SECRET_KEY == "change-this-in-production"
StartTime == 1000

----------------------------------------------------------------------------
(* Python strings *)

Digits == <<"0", "1", "2", "3", "4", "5", "6", "7", "8", "9">>
DigitSet == {Digits[i] : i \in 1..10}
Whitespace == {" "}
LowerAlphabet == <<"a", "b", "c", "d", "e", "f", "g", "h", "i", "j", "k", "l", "m",
                   "n", "o", "p", "q", "r", "s", "t", "u", "v", "w", "x", "y", "z">>
UpperAlphabet == <<"A", "B", "C", "D", "E", "F", "G", "H", "I", "J", "K", "L", "M",
                   "N", "O", "P", "Q", "R", "S", "T", "U", "V", "W", "X", "Y", "Z">>

\* str.lower()
lower(s) ==
    LET LowerChar(c) ==
            IF \E i \in 1..26 : UpperAlphabet[i] = c
            THEN LowerAlphabet[CHOOSE i \in 1..26 : UpperAlphabet[i] = c]
            ELSE c
    IN  [i \in 1..Len(s) |-> LowerChar(s[i])]

RECURSIVE lstrip(_)
lstrip(s) == IF s # <<>> /\ Head(s) \in Whitespace THEN lstrip(Tail(s)) ELSE s

RECURSIVE rstrip(_)
rstrip(s) ==
    IF s # <<>> /\ s[Len(s)] \in Whitespace THEN rstrip(SubSeq(s, 1, Len(s) - 1)) ELSE s

\* str.strip()
strip(s) == rstrip(lstrip(s))

\* str(n) for a non-negative int
RECURSIVE str(_)
str(n) == IF n < 10 THEN <<Digits[n + 1]>> ELSE str(n \div 10) \o <<Digits[(n % 10) + 1]>>

DigitVal(c) == CHOOSE d \in 0..9 : Digits[d + 1] = c

\* whether int(s) returns (it raises ValueError otherwise)
IsNumeric(s) == s # <<>> /\ \A i \in 1..Len(s) : s[i] \in DigitSet

\* int(s) for a numeric s
RECURSIVE int(_)
int(s) ==
    IF Len(s) = 1 THEN DigitVal(s[1])
    ELSE 10 * int(SubSeq(s, 1, Len(s) - 1)) + DigitVal(s[Len(s)])

\* dict.get(key, default)
Get(d, key, default) == IF key \in DOMAIN d THEN d[key] ELSE default

----------------------------------------------------------------------------
(* Token codec: auth_tokens.py *)

JWT_HEADER == "{\"alg\":\"HS256\",\"typ\":\"JWT\"}"

\* _sign: HMAC-SHA256 of "header_part.payload_part" under SECRET_KEY
_sign(hdr, body) == [key |-> SECRET_KEY, hdr |-> hdr, body |-> body]

\* _encode(payload): the string "header.payload.signature"
\*   lpad, rpad : whitespace around the string (none in an encoded token)
\*   ascii      : every character of the signature part is ASCII
\*   nparts     : len(token.split("."))
\*   body       : the payload part, [json |-> "dict", claims |-> payload]
_encode(payload) ==
    LET body == [json |-> "dict", claims |-> payload] IN
    [lpad |-> FALSE, rpad |-> FALSE, nparts |-> 3, ascii |-> TRUE, hdr |-> JWT_HEADER,
     body |-> body, sig |-> _sign(JWT_HEADER, body)]

\* str.strip() of a token string
strip_token(t) == [t EXCEPT !.lpad = FALSE, !.rpad = FALSE]

\* parts[0] and parts[2] of token.split("."): surrounding whitespace stays in them
FirstPart(t) == [text |-> t.hdr, lpad |-> t.lpad]
LastPart(t) == [sig |-> t.sig, rpad |-> t.rpad]

_decode_late_expiry(t, clk) ==
    LET raise(exc, msg) == [ok |-> FALSE, exc |-> exc, err |-> msg, payload |-> <<>>]
        fail(msg) == raise("ValueError", msg)
    IN
    IF t.nparts # 3 THEN fail("Malformed token")
    \* hmac.compare_digest(str, str) raises TypeError on a non-ASCII character
    ELSE IF ~t.ascii
         THEN raise("TypeError", "comparing strings with non-ASCII characters is not supported")
    \* the signing input is parts[0] + "." + parts[1]; the expected signature has
    \* no whitespace, so a padded first or last part never matches
    ELSE IF [sig |-> _sign(FirstPart(t).text, t.body), rpad |-> FALSE] # LastPart(t)
              \/ FirstPart(t).lpad
         THEN fail("Invalid token signature")
    \* _b64url_decode / json.loads raise a ValueError subclass on garbage
    ELSE IF t.body.json = "garbage" THEN fail("Undecodable payload")
    ELSE IF t.body.json # "dict" THEN fail("Invalid token payload")
    ELSE IF clk > Get(t.body.claims, "exp", 0) THEN fail("Token expired")
    ELSE [ok |-> TRUE, exc |-> "", err |-> "", payload |-> t.body.claims]

\* _decode(token) at clock value clk: [ok, exc, err, payload]; exc is the class
\* of the exception raised ("" when the payload is returned), err is str(exc).
\* The payloads considered carry an int exp or none, so int(payload.get("exp", 0))
\* is the value itself.
_decode(t, clk) ==
    LET raise(exc, msg) == [ok |-> FALSE, exc |-> exc, err |-> msg, payload |-> <<>>]
        fail(msg) == raise("ValueError", msg)
    IN
    IF t.nparts # 3 THEN fail("Malformed token")
    \* hmac.compare_digest(str, str) raises TypeError on a non-ASCII character
    ELSE IF ~t.ascii
         THEN raise("TypeError", "comparing strings with non-ASCII characters is not supported")
    \* the signing input is parts[0] + "." + parts[1]; the expected signature has
    \* no whitespace, so a padded first or last part never matches
    ELSE IF [sig |-> _sign(FirstPart(t).text, t.body), rpad |-> FALSE] # LastPart(t)
              \/ FirstPart(t).lpad
         THEN fail("Invalid token signature")
    \* _b64url_decode / json.loads raise a ValueError subclass on garbage
    ELSE IF t.body.json = "garbage" THEN fail("Undecodable payload")
    ELSE IF t.body.json # "dict" THEN fail("Invalid token payload")
    ELSE IF clk >= Get(t.body.claims, "exp", 0) THEN fail("Token expired")
    ELSE [ok |-> TRUE, exc |-> "", err |-> "", payload |-> t.body.claims]

decode_token(t, clk) == _decode(t, clk)

create_access_token_wrong_sub(user_id, email, clk, jti) ==
    _encode([sub |-> email, email |-> email, type |-> "access",
             iat |-> clk, exp |-> clk + ACCESS_TOKEN_TTL_SECONDS, jti |-> jti])

create_access_token(user_id, email, clk, jti) ==
    _encode([sub |-> str(user_id), email |-> email, type |-> "access",
             iat |-> clk, exp |-> clk + ACCESS_TOKEN_TTL_SECONDS, jti |-> jti])

create_refresh_token_access_ttl(user_id, email, clk, jti) ==
    _encode([sub |-> str(user_id), email |-> email, type |-> "refresh",
             iat |-> clk, exp |-> clk + ACCESS_TOKEN_TTL_SECONDS, jti |-> jti])

create_refresh_token(user_id, email, clk, jti) ==
    _encode([sub |-> str(user_id), email |-> email, type |-> "refresh",
             iat |-> clk, exp |-> clk + REFRESH_TOKEN_TTL_SECONDS, jti |-> jti])

----------------------------------------------------------------------------
(* Token codec on strings: the base64url and JSON conversions of            *)
(* auth_tokens.py, computed character by character.  A token is the         *)
(* sequence token.split(".") of its parts; header and payload parts are     *)
(* character sequences, the signature part is the MAC term of _sign_text.   *)
(* Payload strings are ASCII; a Python value is [int |-> n] or [str |-> s]; *)
(* a dict is the sequence of its <<key, value>> items in insertion order.   *)

\* the printable ASCII characters, chr(32) .. chr(126); chr(96) is written "grave"
Ascii ==
    <<" ", "!", "\"", "#", "$", "%", "&", "'", "(", ")", "*", "+", ",", "-", ".", "/",
      "0", "1", "2", "3", "4", "5", "6", "7", "8", "9", ":", ";", "<", "=", ">", "?",
      "@", "A", "B", "C", "D", "E", "F", "G", "H", "I", "J", "K", "L", "M", "N", "O",
      "P", "Q", "R", "S", "T", "U", "V", "W", "X", "Y", "Z", "[", "\\", "]", "^", "_",
      "grave", "a", "b", "c", "d", "e", "f", "g", "h", "i", "j", "k", "l", "m", "n", "o",
      "p", "q", "r", "s", "t", "u", "v", "w", "x", "y", "z", "{", "|", "}", "~">>

ord(c) == 31 + (CHOOSE i \in DOMAIN Ascii : Ascii[i] = c)
chr(n) == Ascii[n - 31]

\* str.encode("utf-8") of an ASCII string: one byte per character
encode_utf8(s) == [i \in 1..Len(s) |-> ord(s[i])]

\* bytes.decode("utf-8"): UnicodeDecodeError (a ValueError) on a byte that is
\* no ASCII character
decode_utf8(bytes) ==
    IF \A i \in 1..Len(bytes) : bytes[i] \in 32..126
    THEN [ok |-> TRUE, text |-> [i \in 1..Len(bytes) |-> chr(bytes[i])]]
    ELSE [ok |-> FALSE, text |-> <<>>]

\* the URL-safe base64 alphabet
B64Alphabet ==
    <<"A", "B", "C", "D", "E", "F", "G", "H", "I", "J", "K", "L", "M", "N", "O", "P",
      "Q", "R", "S", "T", "U", "V", "W", "X", "Y", "Z", "a", "b", "c", "d", "e", "f",
      "g", "h", "i", "j", "k", "l", "m", "n", "o", "p", "q", "r", "s", "t", "u", "v",
      "w", "x", "y", "z", "0", "1", "2", "3", "4", "5", "6", "7", "8", "9", "-", "_">>

b64chr(n) == B64Alphabet[n + 1]

\* the value of a data character; urlsafe_b64decode also takes "+" and "/"
b64val(c) ==
    IF c = "+" THEN 62
    ELSE IF c = "/" THEN 63
    ELSE (CHOOSE i \in DOMAIN B64Alphabet : B64Alphabet[i] = c) - 1

\* base64.urlsafe_b64encode: three bytes make four characters, "=" pads the rest
RECURSIVE urlsafe_b64encode(_)
urlsafe_b64encode(bytes) ==
    IF Len(bytes) = 0 THEN <<>>
    ELSE IF Len(bytes) = 1
    THEN <<b64chr(bytes[1] \div 4), b64chr((bytes[1] % 4) * 16), "=", "=">>
    ELSE IF Len(bytes) = 2
    THEN <<b64chr(bytes[1] \div 4),
           b64chr(((bytes[1] % 4) * 16) + (bytes[2] \div 16)),
           b64chr((bytes[2] % 16) * 4), "=">>
    ELSE <<b64chr(bytes[1] \div 4),
           b64chr(((bytes[1] % 4) * 16) + (bytes[2] \div 16)),
           b64chr(((bytes[2] % 16) * 4) + (bytes[3] \div 64)),
           b64chr(bytes[3] % 64)>>
         \o urlsafe_b64encode(SubSeq(bytes, 4, Len(bytes)))

\* str.rstrip("=")
RECURSIVE rstrip_pad(_)
rstrip_pad(s) ==
    IF s # <<>> /\ s[Len(s)] = "=" THEN rstrip_pad(SubSeq(s, 1, Len(s) - 1)) ELSE s

\* _b64url_encode
_b64url_encode(value) == rstrip_pad(urlsafe_b64encode(value))

\* binascii.a2b_base64 (not strict) reads one character c in state st:
\*   quad_pos : data characters read in the current group of four
\*   leftchar : the bits of them not yet written
\*   pads     : "=" read since the last data character
\*   done     : enough "=" after two or three data characters ended the input
\* A character outside the alphabet is skipped.
a2b_base64_char(st, c) ==
    IF st.done THEN st
    ELSE IF c = "="
    THEN IF st.quad_pos >= 2 /\ st.quad_pos + st.pads + 1 >= 4
         THEN [st EXCEPT !.done = TRUE, !.quad_pos = 0]
         ELSE [st EXCEPT !.pads = st.pads + 1]
    ELSE IF c \notin {B64Alphabet[i] : i \in DOMAIN B64Alphabet} \cup {"+", "/"} THEN st
    ELSE LET v == b64val(c) IN
         IF st.quad_pos = 0
         THEN [st EXCEPT !.quad_pos = 1, !.leftchar = v, !.pads = 0]
         ELSE IF st.quad_pos = 1
         THEN [st EXCEPT !.quad_pos = 2, !.leftchar = v % 16, !.pads = 0,
                         !.out = Append(st.out, (st.leftchar * 4) + (v \div 16))]
         ELSE IF st.quad_pos = 2
         THEN [st EXCEPT !.quad_pos = 3, !.leftchar = v % 4, !.pads = 0,
                         !.out = Append(st.out, (st.leftchar * 16) + (v \div 4))]
         ELSE [st EXCEPT !.quad_pos = 0, !.leftchar = 0, !.pads = 0,
                         !.out = Append(st.out, (st.leftchar * 64) + v)]

\* the loop of a2b_base64 over s[lo..hi], left to right
RECURSIVE a2b_base64_loop(_, _, _, _)
a2b_base64_loop(st, s, lo, hi) ==
    IF lo > hi THEN st
    ELSE IF lo = hi THEN a2b_base64_char(st, s[lo])
    ELSE LET mid == (lo + hi) \div 2
             left == a2b_base64_loop(st, s, lo, mid)
         IN  IF left.done THEN left ELSE a2b_base64_loop(left, s, mid + 1, hi)

\* binascii.a2b_base64: a group left open at the end is binascii.Error
a2b_base64(s) ==
    LET st == a2b_base64_loop([quad_pos |-> 0, leftchar |-> 0, pads |-> 0,
                               out |-> <<>>, done |-> FALSE], s, 1, Len(s))
    IN  [ok |-> st.quad_pos = 0, bytes |-> st.out]

urlsafe_b64decode(s) == a2b_base64(s)

\* _b64url_decode: restore the padding, then decode
_b64url_decode_no_padding(value) == urlsafe_b64decode(value)

_b64url_decode(value) ==
    LET padding == [i \in 1..((4 - (Len(value) % 4)) % 4) |-> "="]
    IN  urlsafe_b64decode(value \o padding)

\* dict.get(key, default) on a sequence of items
dict_get(d, key, default) ==
    IF \E i \in DOMAIN d : d[i][1] = key
    THEN d[CHOOSE i \in DOMAIN d : d[i][1] = key][2]
    ELSE default

\* d[key] = value: a key already present keeps its place
dict_set(d, key, value) ==
    IF \E i \in DOMAIN d : d[i][1] = key
    THEN [i \in DOMAIN d |-> IF d[i][1] = key THEN <<key, value>> ELSE d[i]]
    ELSE Append(d, <<key, value>>)

\* json.dumps of a str: py_encode_basestring_ascii
RECURSIVE json_escape(_)
json_escape(s) ==
    IF s = <<>> THEN <<>>
    ELSE (IF Head(s) \in {"\"", "\\"} THEN <<"\\", Head(s)>> ELSE <<Head(s)>>)
         \o json_escape(Tail(s))

json_dumps_str(s) == <<"\"">> \o json_escape(s) \o <<"\"">>

json_dumps_value(v) ==
    IF "int" \in DOMAIN v THEN str(v.int) ELSE json_dumps_str(v.str)

\* the items of a dict, joined by the item separator ","
RECURSIVE json_dumps_items(_)
json_dumps_items(d) ==
    IF d = <<>> THEN <<>>
    ELSE json_dumps_str(d[1][1]) \o <<":">> \o json_dumps_value(d[1][2])
         \o (IF Len(d) > 1 THEN <<",">> ELSE <<>>)
         \o json_dumps_items(Tail(d))

\* json.dumps(obj, separators=(",", ":")) of a dict
json_dumps(d) == <<"{">> \o json_dumps_items(d) \o <<"}">>

JSONDecodeError == [ok |-> FALSE, val |-> <<>>, pos |-> 0]

\* json.decoder.scanstring from position i, after the opening quote; of the
\* escapes only \" \\ and \/ are read (json_dumps writes no other for ASCII)
RECURSIVE scanstring(_, _, _)
scanstring(s, i, acc) ==
    IF i > Len(s) THEN JSONDecodeError
    ELSE IF s[i] = "\"" THEN [ok |-> TRUE, val |-> acc, pos |-> i + 1]
    ELSE IF s[i] = "\\"
    THEN IF i + 1 <= Len(s) /\ s[i + 1] \in {"\"", "\\", "/"}
         THEN scanstring(s, i + 2, Append(acc, s[i + 1]))
         ELSE JSONDecodeError
    ELSE scanstring(s, i + 1, Append(acc, s[i]))

\* the end of the run of digits that starts at position i
RECURSIVE end_of_digits(_, _)
end_of_digits(s, i) ==
    IF i <= Len(s) /\ s[i] \in DigitSet THEN end_of_digits(s, i + 1) ELSE i

\* a JSON int (no sign, no fraction, no exponent, no leading zero) or str
scan_value(s, i) ==
    IF i > Len(s) THEN JSONDecodeError
    ELSE IF s[i] = "\""
    THEN LET r == scanstring(s, i + 1, <<>>) IN
         IF r.ok THEN [ok |-> TRUE, val |-> [str |-> r.val], pos |-> r.pos]
         ELSE JSONDecodeError
    ELSE IF s[i] \in DigitSet
    THEN LET j == end_of_digits(s, i) IN
         IF s[i] = "0" /\ j > i + 1 THEN JSONDecodeError
         ELSE [ok |-> TRUE, val |-> [int |-> int(SubSeq(s, i, j - 1))], pos |-> j]
    ELSE JSONDecodeError

\* json.decoder.JSONObject from position i, where an item must start
RECURSIVE scan_items(_, _, _)
scan_items(s, i, acc) ==
    IF i > Len(s) \/ s[i] # "\"" THEN JSONDecodeError
    ELSE LET key == scanstring(s, i + 1, <<>>) IN
         IF ~key.ok \/ key.pos > Len(s) THEN JSONDecodeError
         ELSE IF s[key.pos] # ":" THEN JSONDecodeError
         ELSE LET value == scan_value(s, key.pos + 1) IN
              IF ~value.ok \/ value.pos > Len(s) THEN JSONDecodeError
              ELSE IF s[value.pos] = "}"
              THEN [ok |-> TRUE, val |-> dict_set(acc, key.val, value.val),
                    pos |-> value.pos + 1]
              ELSE IF s[value.pos] = ","
              THEN scan_items(s, value.pos + 1, dict_set(acc, key.val, value.val))
              ELSE JSONDecodeError

\* json.loads: [ok, isdict, val]; anything after the value is "Extra data"
json_loads(s) ==
    LET fail == [ok |-> FALSE, isdict |-> FALSE, val |-> <<>>] IN
    IF s = <<>> THEN fail
    ELSE IF s[1] = "{"
    THEN IF Len(s) >= 2 /\ s[2] = "}"
         THEN IF Len(s) = 2 THEN [ok |-> TRUE, isdict |-> TRUE, val |-> <<>>] ELSE fail
         ELSE LET r == scan_items(s, 2, <<>>) IN
              IF r.ok /\ r.pos = Len(s) + 1
              THEN [ok |-> TRUE, isdict |-> TRUE, val |-> r.val]
              ELSE fail
    ELSE LET r == scan_value(s, 1) IN
         IF r.ok /\ r.pos = Len(s) + 1
         THEN [ok |-> TRUE, isdict |-> FALSE, val |-> r.val]
         ELSE fail

\* signing_input.encode("utf-8") in _sign succeeds: a str holding a lone
\* surrogate (written "surrogate") raises UnicodeEncodeError (a ValueError);
\* any other character, ASCII or not (as "eacute"), is encoded
utf8_encodable(s) == \A i \in DOMAIN s : s[i] # "surrogate"

\* hmac.new(key, msg, hashlib.sha256).digest(): an ideal MAC, the term [key, msg]
hmac_sha256(key, msg) == [key |-> key, msg |-> msg]

_sign_text_payload_only(signing_input) ==
    LET dot == CHOOSE i \in DOMAIN signing_input : signing_input[i] = "."
    IN  [b64 |-> hmac_sha256(SECRET_KEY,
                             SubSeq(signing_input, dot, Len(signing_input)))]

\* _sign on strings: the base64url text of the digest, kept as a term
_sign_text(signing_input) == [b64 |-> hmac_sha256(SECRET_KEY, signing_input)]

\* _encode on strings: token.split(".") of the token it returns
_encode_text(payload) ==
    LET \* header = {"alg": "HS256", "typ": "JWT"}
        header == << <<(<<"a", "l", "g">>), [str |-> <<"H", "S", "2", "5", "6">>]>>,
                     <<(<<"t", "y", "p">>), [str |-> <<"J", "W", "T">>]>> >>
        header_part == _b64url_encode(encode_utf8(json_dumps(header)))
        payload_part == _b64url_encode(encode_utf8(json_dumps(payload)))
        signing_input == header_part \o <<".">> \o payload_part
    IN  <<header_part, payload_part, _sign_text(signing_input)>>

\* int(x) of a payload value: [ok, val]; a str is stripped and read as digits
int_of_value(v) ==
    IF "int" \in DOMAIN v THEN [ok |-> TRUE, val |-> v.int]
    ELSE IF IsNumeric(strip(v.str)) THEN [ok |-> TRUE, val |-> int(strip(v.str))]
    ELSE [ok |-> FALSE, val |-> 0]

\* _decode on strings, at clock value clk: [ok, exc, err, payload]
_decode_text(parts, clk) ==
    LET raise(exc, msg) == [ok |-> FALSE, exc |-> exc, err |-> msg, payload |-> <<>>]
        fail(msg) == raise("ValueError", msg)
    IN
    IF Len(parts) # 3 THEN fail("Malformed token")
    ELSE IF ~utf8_encodable(parts[1] \o <<".">> \o parts[2])
    THEN fail("UnicodeEncodeError")
    ELSE IF _sign_text(parts[1] \o <<".">> \o parts[2]) # parts[3]
    THEN fail("Invalid token signature")
    ELSE LET payload_bytes == _b64url_decode(parts[2]) IN
         IF ~payload_bytes.ok THEN fail("binascii.Error")
         ELSE LET text == decode_utf8(payload_bytes.bytes) IN
              IF ~text.ok THEN fail("UnicodeDecodeError")
              ELSE LET payload == json_loads(text.text) IN
                   IF ~payload.ok THEN fail("JSONDecodeError")
                   ELSE IF ~payload.isdict THEN fail("Invalid token payload")
                   ELSE LET exp == int_of_value(
                                       dict_get(payload.val, <<"e", "x", "p">>, [int |-> 0]))
                        IN  IF ~exp.ok THEN fail("invalid literal for int() with base 10")
                            ELSE IF clk >= exp.val THEN fail("Token expired")
                            ELSE [ok |-> TRUE, exc |-> "", err |-> "",
                                  payload |-> payload.val]

----------------------------------------------------------------------------
(* Credential codec: auth_db.py *)

None == [none |-> TRUE]

PBKDF2_ITERATIONS == 120000

\* hashlib.pbkdf2_hmac("sha256", password, salt, iterations): an ideal KDF of
\* the HMAC key, salt and iteration count.  HMAC pads a key shorter than its
\* 64-byte block with zero bytes, so the key is the password without its
\* trailing NUL characters (chr(0), written "NUL").
pbkdf2_hmac(password, salt, iterations) ==
    LET kept == {i \in DOMAIN password : password[i] # "NUL"}
        key == SubSeq(password, 1, IF kept = {} THEN 0
                                   ELSE CHOOSE i \in kept : \A j \in kept : j <= i)
    IN  [kdf |-> "sha256", password |-> key, salt |-> salt, iterations |-> iterations]

\* hash_password: the four '$'-separated fields of the stored string; the
\* base64 text of bytes v is the term [b64 |-> v]
hash_password(password, salt) ==
    <<"pbkdf2_sha256", str(PBKDF2_ITERATIONS), [b64 |-> salt],
      [b64 |-> pbkdf2_hmac(password, salt, PBKDF2_ITERATIONS)]>>

\* verify_password: [raised, value]; raised names the exception that leaves the
\* function ("" when it returns value).  A salt or key field that is no base64
\* text is [text |-> "not-base64"] (b64decode raises binascii.Error) or
\* [text |-> "non-ascii"] (encode("ascii") raises UnicodeEncodeError).
verify_password(password, password_hash) ==
    LET return(v) == [raised |-> "", value |-> v]
        raise(exc) == [raised |-> exc, value |-> FALSE]
        undecodable(field) ==
            IF "b64" \in DOMAIN field THEN ""
            ELSE IF field.text = "non-ascii" THEN "UnicodeEncodeError"
            ELSE "binascii.Error"
    IN  IF Len(password_hash) # 4 THEN return(FALSE)
        ELSE IF password_hash[1] # "pbkdf2_sha256" THEN return(FALSE)
        ELSE IF ~IsNumeric(strip(password_hash[2])) THEN raise("ValueError")
        ELSE IF undecodable(password_hash[3]) # "" THEN raise(undecodable(password_hash[3]))
        ELSE IF undecodable(password_hash[4]) # "" THEN raise(undecodable(password_hash[4]))
        ELSE IF int(strip(password_hash[2])) = 0 THEN raise("ValueError")
        ELSE return(pbkdf2_hmac(password, password_hash[3].b64,
                                int(strip(password_hash[2])))
                        = password_hash[4].b64)

----------------------------------------------------------------------------
(* User directory: auth_db.py, table users *)

_public_user_whole_row(row) == row

_public_user(row) ==
    [id |-> row.id, full_name |-> row.full_name, username |-> row.username,
     email |-> row.email, provider |-> row.provider, created_at |-> row.created_at]

\* SELECT * FROM users WHERE id = ? ... fetchone()
get_user_by_id(U, user_id) ==
    LET hit == {i \in DOMAIN U : U[i].id = user_id} IN
    IF hit = {} THEN None ELSE _public_user(U[CHOOSE i \in hit : TRUE])

\* SELECT * FROM users WHERE email = ? ... fetchone(), the row itself
RowByEmail(U, email) ==
    LET hit == {i \in DOMAIN U : U[i].email = lower(strip(email))} IN
    IF hit = {} THEN None ELSE U[CHOOSE i \in hit : TRUE]

get_user_by_email(U, email) ==
    IF RowByEmail(U, email) = None THEN None ELSE _public_user(RowByEmail(U, email))

\* AUTOINCREMENT: one more than the largest id ever used (no row is deleted)
NextUserId(U) == Len(U) + 1

create_user_unchecked(U, full_name, username, email, password, provider, clk, salt) ==
    LET row == [id |-> NextUserId(U), full_name |-> strip(full_name),
                username |-> lower(strip(username)), email |-> lower(strip(email)),
                password_hash |-> hash_password(password, salt),
                provider |-> provider, created_at |-> clk]
    IN  [err |-> "", users |-> Append(U, row), user |-> _public_user(row)]

create_user_username_first(U, full_name, username, email, password, provider, clk, salt) ==
    LET normalized_username == lower(strip(username))
        normalized_email == lower(strip(email))
        row == [id |-> NextUserId(U), full_name |-> strip(full_name),
                username |-> normalized_username, email |-> normalized_email,
                password_hash |-> hash_password(password, salt),
                provider |-> provider, created_at |-> clk]
    IN  IF \E i \in DOMAIN U : U[i].username = normalized_username
        THEN [err |-> "Username unavailable", users |-> U, user |-> None]
        ELSE IF \E i \in DOMAIN U : U[i].email = normalized_email
        THEN [err |-> "Email already used", users |-> U, user |-> None]
        ELSE [err |-> "", users |-> Append(U, row), user |-> _public_user(row)]

\* create_user: [err, users, user]; err is the ValueError message, "" on success
create_user(U, full_name, username, email, password, provider, clk, salt) ==
    LET normalized_username == lower(strip(username))
        normalized_email == lower(strip(email))
        row == [id |-> NextUserId(U), full_name |-> strip(full_name),
                username |-> normalized_username, email |-> normalized_email,
                password_hash |-> hash_password(password, salt),
                provider |-> provider, created_at |-> clk]
    IN  \* sqlite3.IntegrityError: the email index is reported first
        IF \E i \in DOMAIN U : U[i].email = normalized_email
        THEN [err |-> "Email already used", users |-> U, user |-> None]
        ELSE IF \E i \in DOMAIN U : U[i].username = normalized_username
        THEN [err |-> "Username unavailable", users |-> U, user |-> None]
        ELSE [err |-> "", users |-> Append(U, row), user |-> _public_user(row)]

authenticate_user(U, email, password) ==
    LET row == RowByEmail(U, email) IN
    IF row = None THEN None
    ELSE LET verified == verify_password(password, row.password_hash) IN
         IF verified.raised # "" THEN [raised |-> verified.raised]
         ELSE IF ~verified.value THEN None
         ELSE _public_user(row)

----------------------------------------------------------------------------
(* Refresh-token ledger: auth_db.py, table refresh_tokens *)

save_refresh_token_or_ignore(L, token, user_id, expires_at, clk) ==
    IF \E r \in L : r.token = token THEN L
    ELSE L \cup {[token |-> token, user_id |-> user_id, expires_at |-> expires_at,
                  created_at |-> clk, revoked |-> 0]}

\* INSERT OR REPLACE INTO refresh_tokens (...) VALUES (?, ?, ?, ?, 0)
save_refresh_token(L, token, user_id, expires_at, clk) ==
    {r \in L : r.token # token}
        \cup {[token |-> token, user_id |-> user_id, expires_at |-> expires_at,
               created_at |-> clk, revoked |-> 0]}

is_refresh_token_valid_at_expiry(L, token, clk) ==
    LET rows == {r \in L : r.token = token} IN
    IF rows = {} THEN FALSE
    ELSE LET row == CHOOSE r \in rows : TRUE IN
         IF row.revoked = 1 THEN FALSE ELSE row.expires_at >= clk

is_refresh_token_valid_ignoring_revoked(L, token, clk) ==
    LET rows == {r \in L : r.token = token} IN
    IF rows = {} THEN FALSE
    ELSE LET row == CHOOSE r \in rows : TRUE IN row.expires_at > clk

\* SELECT revoked, expires_at FROM refresh_tokens WHERE token = ? ... fetchone()
is_refresh_token_valid(L, token, clk) ==
    LET rows == {r \in L : r.token = token} IN
    IF rows = {} THEN FALSE
    ELSE LET row == CHOOSE r \in rows : TRUE IN
         IF row.revoked = 1 THEN FALSE ELSE row.expires_at > clk

revoke_refresh_token_of_account(L, token) ==
    {IF r.user_id \in {q.user_id : q \in {x \in L : x.token = token}}
     THEN [r EXCEPT !.revoked = 1] ELSE r : r \in L}

revoke_refresh_token_noop(L, token) == L

revoke_refresh_token_toggle(L, token) ==
    {IF r.token = token THEN [r EXCEPT !.revoked = 1 - @] ELSE r : r \in L}

\* UPDATE refresh_tokens SET revoked = 1 WHERE token = ?
revoke_refresh_token(L, token) ==
    {IF r.token = token THEN [r EXCEPT !.revoked = 1] ELSE r : r \in L}

----------------------------------------------------------------------------
(* Session protocol: auth_routes.py *)

\* USERNAME_RE = ^[a-z0-9._]{3,20}$
USERNAME_RE(s) ==
    /\ Len(s) >= 3 /\ Len(s) <= 20
    /\ \A i \in 1..Len(s) : s[i] \in {LowerAlphabet[j] : j \in 1..26} \cup DigitSet \cup {".", "_"}

\* EMAIL_RE = ^[^\s@]+@[^\s@]+\.[^\s@]+$
EMAIL_RE(s) ==
    /\ \A i \in 1..Len(s) : s[i] \notin Whitespace
    /\ Cardinality({i \in 1..Len(s) : s[i] = "@"}) = 1
    /\ \E i \in 1..Len(s), j \in 1..Len(s) :
          s[i] = "@" /\ s[j] = "." /\ 1 < i /\ i + 1 < j /\ j < Len(s)

_validate_password_strength(password) ==
    /\ \E i \in 1..Len(password) : password[i] \in {LowerAlphabet[j] : j \in 1..26} \cup {UpperAlphabet[j] : j \in 1..26}
    /\ \E i \in 1..Len(password) : password[i] \in DigitSet

\* a response: HTTP status, detail / message, and the AuthResponse fields
Response(status, detail, user, access_token, refresh_token) ==
    [status |-> status, detail |-> detail, user |-> user,
     access_token |-> access_token, refresh_token |-> refresh_token]

HTTPException(status, detail) == Response(status, detail, None, None, None)

\* a 2xx response
Succeeded(resp) == resp.status \in {200, 201}

\* the effect of a handler: its response and the storage and clock it leaves
Effect(resp, U, L, clk, minted) ==
    [resp |-> resp, users |-> U, ledger |-> L, clk |-> clk, minted |-> minted]

_build_auth_response_saving_access(message, user, U, L, clk, delay, ctr) ==
    LET access_token == create_access_token(user.id, user.email, clk, ctr + 1)
        refresh_token == create_refresh_token(user.id, user.email, clk, ctr + 2)
        saved == save_refresh_token(L, access_token, user.id,
                                    (clk + delay) + REFRESH_TOKEN_TTL_SECONDS, clk + delay)
    IN  Effect(Response(200, message, user, access_token, refresh_token),
               U, saved, clk + delay, {access_token, refresh_token})

_build_auth_response_early_expiry(message, user, U, L, clk, delay, ctr) ==
    LET access_token == create_access_token(user.id, user.email, clk, ctr + 1)
        refresh_token == create_refresh_token(user.id, user.email, clk, ctr + 2)
        saved == save_refresh_token(L, refresh_token, user.id,
                                    (clk + delay) + ACCESS_TOKEN_TTL_SECONDS, clk + delay)
    IN  Effect(Response(200, message, user, access_token, refresh_token),
               U, saved, clk + delay, {access_token, refresh_token})

_build_auth_response_wrong_owner(message, user, U, L, clk, delay, ctr) ==
    LET access_token == create_access_token(user.id, user.email, clk, ctr + 1)
        refresh_token == create_refresh_token(user.id, user.email, clk, ctr + 2)
        saved == save_refresh_token(L, refresh_token, user.id + 1,
                                    (clk + delay) + REFRESH_TOKEN_TTL_SECONDS, clk + delay)
    IN  Effect(Response(200, message, user, access_token, refresh_token),
               U, saved, clk + delay, {access_token, refresh_token})

\* _build_auth_response; ctr is the number of tokens minted so far (the jti
\* source).  The three clock reads are create_access_token's,
\* create_refresh_token's and the one for expires_at; delay is the time that
\* passes before the last of them.
_build_auth_response(message, user, U, L, clk, delay, ctr) ==
    LET access_token == create_access_token(user.id, user.email, clk, ctr + 1)
        refresh_token == create_refresh_token(user.id, user.email, clk, ctr + 2)
        saved == save_refresh_token(L, refresh_token, user.id,
                                    (clk + delay) + REFRESH_TOKEN_TTL_SECONDS, clk + delay)
    IN  Effect(Response(200, message, user, access_token, refresh_token),
               U, saved, clk + delay, {access_token, refresh_token})

\* POST /auth/register
register(payload, U, L, clk, delay, ctr) ==
    LET normalized_username == lower(strip(payload.username))
        normalized_email == lower(strip(payload.email))
        reject(status, detail) == Effect(HTTPException(status, detail), U, L, clk, {})
    IN  IF ~USERNAME_RE(normalized_username)
        THEN reject(422, "Username must be 3-20 chars: lowercase letters, numbers, dot, underscore.")
        ELSE IF ~EMAIL_RE(normalized_email)
        THEN reject(422, "Enter a valid email address.")
        ELSE IF ~_validate_password_strength(payload.password)
        THEN reject(422, "Password must include letters and numbers.")
        ELSE LET made == create_user(U, payload.full_name, normalized_username,
                                     normalized_email, payload.password,
                                     payload.provider, clk, NextUserId(U))
             IN  IF made.err # "" THEN reject(409, made.err)
                 ELSE LET e == _build_auth_response("Account created", made.user,
                                                    made.users, L, clk, delay, ctr)
                      IN  [e EXCEPT !.resp.status = 201]   \* status_code=HTTP_201_CREATED

login_enumerating(payload, U, L, clk, delay, ctr) ==
    LET normalized_email == lower(strip(payload.email))
        reject(status, detail) == Effect(HTTPException(status, detail), U, L, clk, {})
    IN  IF ~EMAIL_RE(normalized_email)
        THEN reject(422, "Enter a valid email address.")
        ELSE IF RowByEmail(U, normalized_email) = None
        THEN reject(404, "No account with this email.")
        ELSE LET user == authenticate_user(U, normalized_email, payload.password) IN
             IF user = None THEN reject(401, "Invalid email or password.")
             ELSE _build_auth_response("Signed in", user, U, L, clk, delay, ctr)

\* POST /auth/login; an exception of authenticate_user is caught nowhere
login(payload, U, L, clk, delay, ctr) ==
    LET normalized_email == lower(strip(payload.email))
        reject(status, detail) == Effect(HTTPException(status, detail), U, L, clk, {})
    IN  IF ~EMAIL_RE(normalized_email)
        THEN reject(422, "Enter a valid email address.")
        ELSE LET user == authenticate_user(U, normalized_email, payload.password) IN
             IF user = None THEN reject(401, "Invalid email or password.")
             ELSE IF "raised" \in DOMAIN user THEN reject(500, "Internal Server Error")
             ELSE _build_auth_response("Signed in", user, U, L, clk, delay, ctr)

refresh_token_decoding_first(raw, U, L, clk, delay, ctr) ==
    LET refresh_token_value == strip_token(raw)
        reject(detail, ledger) == Effect(HTTPException(401, detail), U, ledger, clk, {})
        decoded == decode_token(refresh_token_value, clk)
    IN  IF decoded.exc = "ValueError"
        THEN reject(decoded.err, revoke_refresh_token(L, refresh_token_value))
        ELSE IF ~decoded.ok
        THEN Effect(HTTPException(500, "Internal Server Error"), U, L, clk, {})
        ELSE IF Get(decoded.payload, "type", "None") # "refresh"
        THEN reject("Invalid token type.", L)
        ELSE IF ~is_refresh_token_valid(L, refresh_token_value, clk)
        THEN reject("Invalid refresh token.", L)
        ELSE IF ~IsNumeric(Get(decoded.payload, "sub", <<"0">>))
        THEN Effect(HTTPException(500, "Internal Server Error"), U, L, clk, {})
        ELSE LET user_id == int(Get(decoded.payload, "sub", <<"0">>))
                 user == get_user_by_id(U, user_id)
             IN  IF user = None
                 THEN reject("User not found.",
                             revoke_refresh_token(L, refresh_token_value))
                 ELSE _build_auth_response(
                          "Token refreshed", user, U,
                          revoke_refresh_token(L, refresh_token_value),
                          clk, delay, ctr)

refresh_token_revoking_wrong_type(raw, U, L, clk, delay, ctr) ==
    LET refresh_token_value == strip_token(raw)
        reject(detail, ledger) == Effect(HTTPException(401, detail), U, ledger, clk, {})
    IN  IF ~is_refresh_token_valid(L, refresh_token_value, clk)
        THEN reject("Invalid refresh token.", L)
        ELSE LET decoded == decode_token(refresh_token_value, clk) IN
             IF decoded.exc = "ValueError"
             THEN reject(decoded.err, revoke_refresh_token(L, refresh_token_value))
             ELSE IF ~decoded.ok
             THEN \* not a ValueError: the except clause does not catch it
                  Effect(HTTPException(500, "Internal Server Error"), U, L, clk, {})
             ELSE IF Get(decoded.payload, "type", "None") # "refresh"
             THEN reject("Invalid token type.", revoke_refresh_token(L, refresh_token_value))
             ELSE IF ~IsNumeric(Get(decoded.payload, "sub", <<"0">>))
             THEN \* int() raises ValueError outside the try block
                  Effect(HTTPException(500, "Internal Server Error"), U, L, clk, {})
             ELSE LET user_id == int(Get(decoded.payload, "sub", <<"0">>))
                      user == get_user_by_id(U, user_id)
                  IN  IF user = None
                      THEN reject("User not found.",
                                  revoke_refresh_token(L, refresh_token_value))
                      ELSE _build_auth_response(
                               "Token refreshed", user, U,
                               revoke_refresh_token(L, refresh_token_value),
                               clk, delay, ctr)

\* POST /auth/refresh
refresh_token(raw, U, L, clk, delay, ctr) ==
    LET refresh_token_value == strip_token(raw)
        reject(detail, ledger) == Effect(HTTPException(401, detail), U, ledger, clk, {})
    IN  IF ~is_refresh_token_valid(L, refresh_token_value, clk)
        THEN reject("Invalid refresh token.", L)
        ELSE LET decoded == decode_token(refresh_token_value, clk) IN
             IF decoded.exc = "ValueError"
             THEN reject(decoded.err, revoke_refresh_token(L, refresh_token_value))
             ELSE IF ~decoded.ok
             THEN \* not a ValueError: the except clause does not catch it
                  Effect(HTTPException(500, "Internal Server Error"), U, L, clk, {})
             ELSE IF Get(decoded.payload, "type", "None") # "refresh"
             THEN reject("Invalid token type.", L)
             ELSE IF ~IsNumeric(Get(decoded.payload, "sub", <<"0">>))
             THEN \* int() raises ValueError outside the try block
                  Effect(HTTPException(500, "Internal Server Error"), U, L, clk, {})
             ELSE LET user_id == int(Get(decoded.payload, "sub", <<"0">>))
                      user == get_user_by_id(U, user_id)
                  IN  IF user = None
                      THEN reject("User not found.",
                                  revoke_refresh_token(L, refresh_token_value))
                      ELSE _build_auth_response(
                               "Token refreshed", user, U,
                               revoke_refresh_token(L, refresh_token_value),
                               clk, delay, ctr)

\* an Authorization header: [kind, prefix, rest]
\*   kind   : "absent" (no header), "empty" (""), "text"
\*   prefix : the text up to and including the first " " ("Bearer " when well formed)
\*   rest   : the text after it
get_current_user_any_prefix(authorization, U, clk) ==
    IF authorization.kind # "text"
    THEN HTTPException(401, "Missing bearer token.")
    ELSE LET token == strip_token(authorization.rest)
             decoded == decode_token(token, clk)
         IN  IF decoded.exc = "ValueError" THEN HTTPException(401, decoded.err)
             ELSE IF ~decoded.ok THEN HTTPException(500, "Internal Server Error")
             ELSE IF Get(decoded.payload, "type", "None") # "access"
             THEN HTTPException(401, "Invalid token type.")
             ELSE IF ~IsNumeric(Get(decoded.payload, "sub", <<"0">>))
             THEN HTTPException(500, "Internal Server Error")
             ELSE LET user == get_user_by_id(U, int(Get(decoded.payload, "sub", <<"0">>)))
                  IN  IF user = None THEN HTTPException(401, "User not found.")
                      ELSE Response(200, "", user, None, None)

get_current_user_checking_ledger(authorization, U, clk) ==
    IF authorization.kind # "text" \/ authorization.prefix # "Bearer "
    THEN HTTPException(401, "Missing bearer token.")
    ELSE LET token == strip_token(authorization.rest)
             decoded == decode_token(token, clk)
         IN  IF decoded.exc = "ValueError" THEN HTTPException(401, decoded.err)
             ELSE IF ~decoded.ok THEN HTTPException(500, "Internal Server Error")
             ELSE IF Get(decoded.payload, "type", "None") # "access"
             THEN HTTPException(401, "Invalid token type.")
             ELSE IF ~IsNumeric(Get(decoded.payload, "sub", <<"0">>))
             THEN HTTPException(500, "Internal Server Error")
             ELSE IF \E row \in refresh_tokens :
                        /\ row.user_id = int(Get(decoded.payload, "sub", <<"0">>))
                        /\ row.revoked = 1
             THEN HTTPException(401, "Session revoked.")
             ELSE LET user == get_user_by_id(U, int(Get(decoded.payload, "sub", <<"0">>)))
                  IN  IF user = None THEN HTTPException(401, "User not found.")
                      ELSE Response(200, "", user, None, None)

get_current_user_any_type(authorization, U, clk) ==
    IF authorization.kind # "text" \/ authorization.prefix # "Bearer "
    THEN HTTPException(401, "Missing bearer token.")
    ELSE LET token == strip_token(authorization.rest)
             decoded == decode_token(token, clk)
         IN  IF decoded.exc = "ValueError" THEN HTTPException(401, decoded.err)
             ELSE IF ~decoded.ok THEN HTTPException(500, "Internal Server Error")
             ELSE IF ~IsNumeric(Get(decoded.payload, "sub", <<"0">>))
             THEN HTTPException(500, "Internal Server Error")
             ELSE LET user == get_user_by_id(U, int(Get(decoded.payload, "sub", <<"0">>)))
                  IN  IF user = None THEN HTTPException(401, "User not found.")
                      ELSE Response(200, "", user, None, None)

\* get_current_user
get_current_user(authorization, U, clk) ==
    IF authorization.kind # "text" \/ authorization.prefix # "Bearer "
    THEN HTTPException(401, "Missing bearer token.")
    ELSE LET token == strip_token(authorization.rest)
             decoded == decode_token(token, clk)
         IN  IF decoded.exc = "ValueError" THEN HTTPException(401, decoded.err)
             ELSE IF ~decoded.ok THEN HTTPException(500, "Internal Server Error")
             ELSE IF Get(decoded.payload, "type", "None") # "access"
             THEN HTTPException(401, "Invalid token type.")
             ELSE IF ~IsNumeric(Get(decoded.payload, "sub", <<"0">>))
             THEN HTTPException(500, "Internal Server Error")
             ELSE LET user == get_user_by_id(U, int(Get(decoded.payload, "sub", <<"0">>)))
                  IN  IF user = None THEN HTTPException(401, "User not found.")
                      ELSE Response(200, "", user, None, None)

----------------------------------------------------------------------------
(* Inputs *)

\* the strings of the seeded accounts, the request payloads and the claims
Text ==
    [demo |-> <<"d", "e", "m", "o">>,
     demo_email |-> <<"d", "e", "m", "o", "@", "u", "n", "i", "h", "u", "b", ".", "c", "o", "m">>,
     demo_password |-> <<"D", "e", "m", "o", "@", "1", "2", "3">>,
     demo_password_nul |-> <<"D", "e", "m", "o", "@", "1", "2", "3", "NUL">>,
     demo_full_name |-> <<"D", "e", "m", "o", " ", "U", "s", "e", "r">>,
     testuser |-> <<"t", "e", "s", "t", "u", "s", "e", "r">>,
     test_email |-> <<"t", "e", "s", "t", "@", "u", "n", "i", "h", "u", "b", ".", "c", "o", "m">>,
     test_password |-> <<"T", "e", "s", "t", "@", "1", "2", "3", "4">>,
     test_full_name |-> <<"T", "e", "s", "t", " ", "U", "s", "e", "r">>,
     full_name |-> <<"A", " ", "B">>,
     ab01 |-> <<"a", "b", "0", "1">>,
     AB01_padded |-> <<" ", "A", "B", "0", "1">>,
     bad_username |-> <<"a", "!">>,
     ab_email |-> <<"a", "b", "@", "x", ".", "c", "o", "m">>,
     AB_email_padded |-> <<"A", "B", "@", "x", ".", "c", "o", "m", " ">>,
     bad_email |-> <<"n", "o", "p", "e">>,
     Passw0rd |-> <<"P", "a", "s", "s", "w", "0", "r", "d">>,
     weak_password |-> <<"p", "a", "s", "s", "w", "o", "r", "d">>,
     wrong |-> <<"w", "r", "o", "n", "g">>,
     sub |-> <<"s", "u", "b">>,
     email |-> <<"e", "m", "a", "i", "l">>,
     type |-> <<"t", "y", "p", "e">>,
     iat |-> <<"i", "a", "t">>,
     exp |-> <<"e", "x", "p">>,
     jti |-> <<"j", "t", "i">>,
     access |-> <<"a", "c", "c", "e", "s", "s">>,
     refresh |-> <<"r", "e", "f", "r", "e", "s", "h">>,
     quoted_email |-> <<"q", "\"", "\\", "@", "x", ".", "c">>,
     token_hex |-> <<"0", "f">>]

RegisterPayloads ==
    {[full_name |-> Text.full_name, username |-> u, email |-> e, password |-> pw,
      provider |-> "None"] :
        <<u, e, pw>> \in {<<Text.ab01, Text.ab_email, Text.Passw0rd>>,
                          <<Text.AB01_padded, Text.AB_email_padded, Text.Passw0rd>>,
                          <<Text.ab01, Text.demo_email, Text.Passw0rd>>,
                          <<Text.demo, Text.ab_email, Text.Passw0rd>>,
                          <<Text.bad_username, Text.ab_email, Text.Passw0rd>>,
                          <<Text.ab01, Text.bad_email, Text.Passw0rd>>,
                          <<Text.ab01, Text.ab_email, Text.weak_password>>}}

LoginPayloads ==
    {[email |-> e, password |-> pw] :
        <<e, pw>> \in {<<Text.demo_email, Text.demo_password>>,
                       <<Text.demo_email, Text.demo_password_nul>>,
                       <<Text.demo_email, Text.wrong>>,
                       <<Text.AB_email_padded, Text.Passw0rd>>,
                       <<Text.bad_email, Text.wrong>>}}

\* a string that is no token at all
Garbage ==
    [lpad |-> FALSE, rpad |-> FALSE, nparts |-> 1, ascii |-> TRUE, hdr |-> "garbage",
     body |-> [json |-> "garbage", claims |-> <<>>],
     sig |-> [key |-> "", hdr |-> "", body |-> [json |-> "garbage", claims |-> <<>>]]]

RefreshTokensOf(S) ==
    {t \in S : t.body.json = "dict" /\ Get(t.body.claims, "type", "None") = "refresh"}

\* a three-part string whose last part holds a non-ASCII character: "a.b.\u00e9"
NonAsciiSignature == [Garbage EXCEPT !.nparts = 3, !.ascii = FALSE]

\* what a client can make of a token string t without the signing key
Padded(t) == [t EXCEPT !.rpad = TRUE]              \* t + " "
Forged(t) == [t EXCEPT !.sig.key = "attacker-key"] \* signed with another key

\* the strings a client may present to /auth/refresh
Presentable ==
    issued \cup {Padded(t) : t \in RefreshTokensOf(issued)} \cup {Garbage}

\* the Authorization headers a client may send
Headers ==
    {[kind |-> "absent", prefix |-> "", rest |-> Garbage],
     [kind |-> "empty", prefix |-> "", rest |-> Garbage],
     [kind |-> "text", prefix |-> "Basic ", rest |-> Garbage],
     [kind |-> "text", prefix |-> "Bearer", rest |-> Garbage]}
    \cup {[kind |-> "text", prefix |-> "bearer ", rest |-> t] :
            t \in issued \cup {NonAsciiSignature}}
    \cup {[kind |-> "text", prefix |-> "Bearer ", rest |-> t] :
            t \in issued \cup {Forged(t) : t \in issued}
                   \cup {Garbage, NonAsciiSignature}}

\* time that may pass inside one handler, between two of its clock reads
Delays == {0, 1}

SessionCount == Cardinality(RefreshTokensOf(issued))

----------------------------------------------------------------------------
(* State machine: one action per operation *)

Idle == [pc |-> "idle", raw |-> None, token |-> None, payload |-> <<>>, user |-> None,
         access_token |-> None, refresh_token |-> None, resp |-> None]

NumRequests == 2
Requests == 1..NumRequests

Last(op, presented, resp) == [op |-> op, presented |-> presented, resp |-> resp]

\* seed_default_users, run by init_auth_db at start-up on an empty database
seed_default_users(U, clk) ==
    LET one == create_user(U, Text.demo_full_name, Text.demo, Text.demo_email,
                           Text.demo_password, "None", clk, 1).users
    IN  create_user(one, Text.test_full_name, Text.testuser, Text.test_email,
                    Text.test_password, "None", clk, 2).users

Init ==
    /\ now = StartTime
    /\ users = seed_default_users(<<>>, StartTime)
    /\ refresh_tokens = {}
    /\ issued = {}
    /\ ticks = 0
    /\ directs = 0
    /\ last = Last("init", None, None)
    /\ reqs = [i \in Requests |-> Idle]
    \* the token codec has not been called
    /\ codec = [op |-> "none", payload |-> <<>>, token |-> <<>>, tampered |-> FALSE,
                result |-> None]
    /\ CART = <<>>
    /\ ORDERS = <<>>
    /\ PAYMENT_INTENTS = <<>>
    /\ MESSAGES =
          <<[id |-> 1, sender_id |-> 1, receiver_id |-> 2, content |-> "Hey! How are you?"],
            [id |-> 2, sender_id |-> 2, receiver_id |-> 1, content |-> "Doing great! How about you?"],
            [id |-> 3, sender_id |-> 1, receiver_id |-> 3, content |-> "Let's grab coffee tomorrow"]>>
    /\ active_connections = <<>>
    /\ websockets = <<>>

\* the clock advances
Tick ==
    /\ ticks < MaxTicks
    \* steps that reach the last valid second and the first expired second of a token
    /\ \E d \in {1, ACCESS_TOKEN_TTL_SECONDS - 1, REFRESH_TOKEN_TTL_SECONDS - 1} :
          now' = now + d
    /\ ticks' = ticks + 1
    /\ UNCHANGED <<users, refresh_tokens, issued, directs, last, reqs, codec,
                  CART, ORDERS, PAYMENT_INTENTS, MESSAGES, active_connections, websockets>>

\* the clock advances by one second
TickSecond ==
    /\ ticks < MaxTicks
    /\ now' = now + 1
    /\ ticks' = ticks + 1
    /\ UNCHANGED <<users, refresh_tokens, issued, directs, last, reqs, codec,
                  CART, ORDERS, PAYMENT_INTENTS, MESSAGES, active_connections, websockets>>

\* a handler runs to completion and leaves effect e
Apply(op, presented, e) ==
    /\ Succeeded(e.resp) => SessionCount < MaxSessions
    /\ now' = e.clk
    /\ users' = e.users
    /\ refresh_tokens' = e.ledger
    /\ issued' = issued \cup e.minted
    /\ last' = Last(op, presented, e.resp)
    /\ UNCHANGED <<ticks, directs, reqs, codec,
                  CART, ORDERS, PAYMENT_INTENTS, MESSAGES, active_connections, websockets>>

\* the delays to explore for a handler whose outcome without delay is e0: time
\* passes inside _build_auth_response only
DelaysFor(e0) == IF Succeeded(e0.resp) THEN Delays ELSE {0}

Register ==
    \E payload \in RegisterPayloads :
        \E delay \in DelaysFor(register(payload, users, refresh_tokens, now, 0,
                                        Cardinality(issued))) :
            Apply("register", payload,
                  register(payload, users, refresh_tokens, now, delay,
                           Cardinality(issued)))

Login ==
    \E payload \in LoginPayloads :
        \E delay \in DelaysFor(login(payload, users, refresh_tokens, now, 0,
                                     Cardinality(issued))) :
            Apply("login", payload,
                  login(payload, users, refresh_tokens, now, delay, Cardinality(issued)))

Refresh ==
    \E raw \in Presentable :
        \E delay \in DelaysFor(refresh_token(raw, users, refresh_tokens, now, 0,
                                             Cardinality(issued))) :
            Apply("refresh", raw,
                  refresh_token(raw, users, refresh_tokens, now, delay,
                                Cardinality(issued)))

\* direct use of the token issuer: create_refresh_token(user_id, email)
IssueRefresh ==
    /\ SessionCount < MaxSessions
    /\ \E user_id \in {1, Len(users) + 1} :
          LET t == create_refresh_token(user_id, Text.ab_email, now, Cardinality(issued) + 1)
          IN  /\ issued' = issued \cup {t}
              /\ last' = Last("create_refresh_token", None, None)
    /\ UNCHANGED <<now, users, refresh_tokens, ticks, directs, reqs, codec,
                  CART, ORDERS, PAYMENT_INTENTS, MESSAGES, active_connections, websockets>>

\* direct use of the ledger: save_refresh_token(token, user_id, expires_at)
LedgerSave ==
    /\ directs < MaxDirect
    /\ \E token \in issued \cup {Garbage}, user_id \in {1},
          expires_at \in {now + 1, now + REFRESH_TOKEN_TTL_SECONDS} :
          /\ refresh_tokens' = save_refresh_token(refresh_tokens, token, user_id,
                                                  expires_at, now)
          /\ last' = Last("save", None, None)
    /\ directs' = directs + 1
    /\ UNCHANGED <<now, users, issued, ticks, reqs, codec,
                  CART, ORDERS, PAYMENT_INTENTS, MESSAGES, active_connections, websockets>>

\* direct use of the ledger: revoke_refresh_token(token)
LedgerRevoke ==
    /\ \E token \in {r.token : r \in refresh_tokens} \cup {Garbage} :
          /\ refresh_tokens' = revoke_refresh_token(refresh_tokens, token)
          /\ last' = Last("revoke", None, None)
    /\ UNCHANGED <<now, users, issued, ticks, directs, reqs, codec,
                  CART, ORDERS, PAYMENT_INTENTS, MESSAGES, active_connections, websockets>>

\* a protected request: Depends(get_current_user)
ResolveIdentity ==
    \E authorization \in Headers :
        /\ last' = Last("resolve_identity", authorization,
                        get_current_user(authorization, users, now))
        /\ UNCHANGED <<now, users, refresh_tokens, issued, ticks, directs, reqs, codec,
                  CART, ORDERS, PAYMENT_INTENTS, MESSAGES, active_connections, websockets>>

\* A request to POST /auth/refresh run one storage or clock access at a time.
\* FastAPI runs the handler in a worker thread per request and every auth_db
\* function opens its own connection, so the steps of two requests interleave.
Finish(i, resp) == reqs' = [reqs EXCEPT ![i].pc = "done", ![i].resp = resp]

\* refresh_token_value = payload.refresh_token.strip(); is_refresh_token_valid(...)
R_IsValid(i) ==
    /\ reqs[i].pc = "idle"
    /\ i > 1 => reqs[i - 1].pc # "idle"    \* requests are numbered in order of arrival
    /\ \E raw \in Presentable :
          LET refresh_token_value == strip_token(raw) IN
          IF ~is_refresh_token_valid(refresh_tokens, refresh_token_value, now)
          THEN /\ reqs' = [reqs EXCEPT ![i].pc = "done", ![i].raw = raw,
                                       ![i].token = refresh_token_value,
                                       ![i].resp = HTTPException(401, "Invalid refresh token.")]
          ELSE /\ reqs' = [reqs EXCEPT ![i].pc = "decode", ![i].raw = raw,
                                       ![i].token = refresh_token_value]
    /\ UNCHANGED <<now, users, refresh_tokens, issued, ticks, directs, last, codec,
                  CART, ORDERS, PAYMENT_INTENTS, MESSAGES, active_connections, websockets>>

\* decode_token(refresh_token_value), the type check and int(sub)
R_Decode(i) ==
    /\ reqs[i].pc = "decode"
    /\ LET decoded == decode_token(reqs[i].token, now) IN
       IF decoded.exc = "ValueError"
       THEN /\ refresh_tokens' = revoke_refresh_token(refresh_tokens, reqs[i].token)
            /\ Finish(i, HTTPException(401, decoded.err))
       ELSE IF ~decoded.ok
       THEN /\ UNCHANGED refresh_tokens
            /\ Finish(i, HTTPException(500, "Internal Server Error"))
       ELSE /\ UNCHANGED refresh_tokens
            /\ IF Get(decoded.payload, "type", "None") # "refresh"
               THEN Finish(i, HTTPException(401, "Invalid token type."))
               ELSE IF ~IsNumeric(Get(decoded.payload, "sub", <<"0">>))
               THEN Finish(i, HTTPException(500, "Internal Server Error"))
               ELSE /\ reqs' = [reqs EXCEPT ![i].pc = "lookup",
                                            ![i].payload = decoded.payload]
    /\ UNCHANGED <<now, users, issued, ticks, directs, last, codec,
                  CART, ORDERS, PAYMENT_INTENTS, MESSAGES, active_connections, websockets>>

\* user = get_user_by_id(user_id)
R_Lookup(i) ==
    /\ reqs[i].pc = "lookup"
    /\ reqs' = [reqs EXCEPT ![i].pc = "revoke",
                            ![i].user = get_user_by_id(
                                users, int(Get(reqs[i].payload, "sub", <<"0">>)))]
    /\ UNCHANGED <<now, users, refresh_tokens, issued, ticks, directs, last, codec,
                  CART, ORDERS, PAYMENT_INTENTS, MESSAGES, active_connections, websockets>>

\* revoke_refresh_token(refresh_token_value), on either branch of "if not user"
R_Revoke(i) ==
    /\ reqs[i].pc = "revoke"
    /\ refresh_tokens' = revoke_refresh_token(refresh_tokens, reqs[i].token)
    /\ IF reqs[i].user = None
       THEN Finish(i, HTTPException(401, "User not found."))
       ELSE reqs' = [reqs EXCEPT ![i].pc = "create_access_token"]
    /\ UNCHANGED <<now, users, issued, ticks, directs, last, codec,
                  CART, ORDERS, PAYMENT_INTENTS, MESSAGES, active_connections, websockets>>

\* _build_auth_response: access_token = create_access_token(...)
R_CreateAccessToken(i) ==
    /\ reqs[i].pc = "create_access_token"
    /\ LET t == create_access_token(reqs[i].user.id, reqs[i].user.email, now,
                                    Cardinality(issued) + 1)
       IN  /\ issued' = issued \cup {t}
           /\ reqs' = [reqs EXCEPT ![i].pc = "create_refresh_token", ![i].access_token = t]
    /\ UNCHANGED <<now, users, refresh_tokens, ticks, directs, last, codec,
                  CART, ORDERS, PAYMENT_INTENTS, MESSAGES, active_connections, websockets>>

\* _build_auth_response: refresh_token = create_refresh_token(...)
R_CreateRefreshToken(i) ==
    /\ reqs[i].pc = "create_refresh_token"
    /\ LET t == create_refresh_token(reqs[i].user.id, reqs[i].user.email, now,
                                     Cardinality(issued) + 1)
       IN  /\ issued' = issued \cup {t}
           /\ reqs' = [reqs EXCEPT ![i].pc = "save_refresh_token", ![i].refresh_token = t]
    /\ UNCHANGED <<now, users, refresh_tokens, ticks, directs, last, codec,
                  CART, ORDERS, PAYMENT_INTENTS, MESSAGES, active_connections, websockets>>

\* _build_auth_response: save_refresh_token(...) and the AuthResponse
R_SaveRefreshToken(i) ==
    /\ reqs[i].pc = "save_refresh_token"
    /\ refresh_tokens' = save_refresh_token(refresh_tokens, reqs[i].refresh_token,
                                            reqs[i].user.id,
                                            now + REFRESH_TOKEN_TTL_SECONDS, now)
    /\ Finish(i, Response(200, "Token refreshed", reqs[i].user,
                          reqs[i].access_token, reqs[i].refresh_token))
    /\ UNCHANGED <<now, users, issued, ticks, directs, last, codec,
                  CART, ORDERS, PAYMENT_INTENTS, MESSAGES, active_connections, websockets>>

\* one step of one in-flight refresh request
RefreshStep ==
    \E i \in Requests :
        \/ R_IsValid(i)
        \/ R_Decode(i)
        \/ R_Lookup(i)
        \/ R_Revoke(i)
        \/ R_CreateAccessToken(i)
        \/ R_CreateRefreshToken(i)
        \/ R_SaveRefreshToken(i)

\* the HTTP surface of the authentication core
Next ==
    \/ Tick
    \/ Register
    \/ Login
    \/ Refresh
    \/ ResolveIdentity

Spec == Init /\ [][Next]_vars

\* the issuer and the ledger called directly, as any importer of auth_tokens and
\* auth_db may call them, next to the refresh endpoint
NextLedger ==
    \/ TickSecond
    \/ Refresh
    \/ IssueRefresh
    \/ LedgerSave
    \/ LedgerRevoke

SpecLedger == Init /\ [][NextLedger]_vars

\* sign-ins and refresh requests in flight together
NextConc ==
    \/ Login
    \/ RefreshStep

SpecConc == Init /\ [][NextConc]_vars

----------------------------------------------------------------------------
(* The token codec called directly: _encode, then _decode of the token or  *)
(* of a token that keeps its signature part and differs in another part.   *)


\* the payload dict of create_access_token and create_refresh_token, in its
\* insertion order
Claims(sub, email, type, iat, exp, jti) ==
    << <<Text.sub, [str |-> sub]>>, <<Text.email, [str |-> email]>>,
       <<Text.type, [str |-> type]>>, <<Text.iat, [int |-> iat]>>,
       <<Text.exp, [int |-> exp]>>, <<Text.jti, [str |-> jti]>> >>

ClaimsMaps ==
    {Claims(sub, email, type, StartTime, StartTime + ttl, Text.token_hex) :
        sub \in {<<"1">>, <<"1", "2">>},
        email \in {Text.ab_email, Text.quoted_email},
        type \in {Text.access, Text.refresh},
        ttl \in {1, ACCESS_TOKEN_TTL_SECONDS}}

\* character c with bit k flipped, where that is a printable character again
FlipBit(c, k) ==
    LET n == ord(c)
        m == IF (n \div (2 ^ k)) % 2 = 1 THEN n - (2 ^ k) ELSE n + (2 ^ k)
    IN  IF m \in 32..126 THEN chr(m) ELSE c

\* the strings that differ from segment s: one bit flipped, one character
\* made non-ASCII, one character appended or dropped, the empty segment
Altered(s) ==
    ({[s EXCEPT ![i] = FlipBit(s[i], k)] : i \in DOMAIN s, k \in 0..6}
        \cup {[s EXCEPT ![1] = "eacute"], [s EXCEPT ![1] = "surrogate"],
              Append(s, "A"), SubSeq(s, 1, Len(s) - 1), <<>>})
    \ {s}

\* the tokens of three segments that keep the signature segment of parts and
\* differ from it in the header or the payload segment
Tampered(parts) ==
    LET segment(s) == \A i \in DOMAIN s : s[i] # "." IN
    {<<h, parts[2], parts[3]>> : h \in {a \in Altered(parts[1]) : segment(a)}}
    \cup {<<parts[1], p, parts[3]>> : p \in {a \in Altered(parts[2]) : segment(a)}}
    \cup {<<parts[1], _encode_text(c)[2], parts[3]>> :
              c \in {d \in ClaimsMaps : _encode_text(d)[2] # parts[2]}}
    \cup {<<parts[2], parts[1], parts[3]>>}

\* _encode(payload), the first call of a run
Encode ==
    /\ codec.op = "none"
    /\ \E payload \in ClaimsMaps :
           codec' = [op |-> "encode", payload |-> payload,
                     token |-> _encode_text(payload), tampered |-> FALSE,
                     result |-> None]
    /\ UNCHANGED <<now, users, refresh_tokens, issued, ticks, directs, last, reqs,
                  CART, ORDERS, PAYMENT_INTENTS, MESSAGES, active_connections, websockets>>

\* the token is altered on its way back
Tamper ==
    /\ codec.op = "encode"
    /\ \E t \in Tampered(codec.token) :
           codec' = [codec EXCEPT !.op = "tamper", !.token = t, !.tampered = TRUE]
    /\ UNCHANGED <<now, users, refresh_tokens, issued, ticks, directs, last, reqs,
                  CART, ORDERS, PAYMENT_INTENTS, MESSAGES, active_connections, websockets>>

\* _decode(token)
DecodeText ==
    /\ codec.op \in {"encode", "tamper"}
    /\ codec' = [codec EXCEPT !.op = "decode",
                              !.result = _decode_text(codec.token, now)]
    /\ UNCHANGED <<now, users, refresh_tokens, issued, ticks, directs, last, reqs,
                  CART, ORDERS, PAYMENT_INTENTS, MESSAGES, active_connections, websockets>>

NextCodec ==
    \/ Tick
    \/ Encode
    \/ Tamper
    \/ DecodeText

SpecCodec == Init /\ [][NextCodec]_vars

-----------------------------------------------------------------------------
(* Cart, payment intents and checkout: main.py.  An amount of money (a     *)
(* Python float) is an integer number of ten-thousandths, so that the      *)
(* second decimal kept by round(amount, 2) and the 0.001 of checkout are   *)
(* exact; uuid4() is a fresh value, the number of the intent.              *)

MaxCart == 1
MaxIntents == 1
MaxOrders == 1

\* 0.001 and 1.0 in ten-thousandths
MILLI == 10
UNIT == 1000 * MILLI

\* the body a handler returns, sent with status 200
JSONResponse(body) == [status |-> 200, body |-> body]

\* round(amount, ndigits) of a positive amount: to the nearest, ties to even
round(amount, ndigits) ==
    LET q == UNIT \div (10 ^ ndigits)
        down == (amount \div q) * q
    IN  IF 2 * (amount - down) < q THEN down
        ELSE IF 2 * (amount - down) > q THEN down + q
        ELSE IF (down \div q) % 2 = 0 THEN down ELSE down + q

\* sum(item.quantity * item.price for item in items)
RECURSIVE cart_total(_)
cart_total(items) ==
    IF items = <<>> THEN 0
    ELSE cart_total(SubSeq(items, 1, Len(items) - 1))
             + items[Len(items)].quantity * items[Len(items)].price

\* Depends(get_current_user), then _require_user_access: the exception raised,
\* or None; current_user is what get_current_user answered
_require_user_access_any_account(user_id, current_user) ==
    IF current_user.status # 200 THEN current_user ELSE None

_require_user_access(user_id, current_user) ==
    IF current_user.status # 200 THEN current_user
    ELSE IF current_user.user.id # user_id
    THEN HTTPException(403, "Forbidden: user scope mismatch.")
    ELSE None

add_to_cart(user_id, item, authorization, U, clk, cart) ==
    LET denied == _require_user_access(user_id, get_current_user(authorization, U, clk))
        added == [u \in DOMAIN cart \cup {user_id} |->
                     IF u = user_id
                     THEN Append(IF u \in DOMAIN cart THEN cart[u] ELSE <<>>, item)
                     ELSE cart[u]]
    IN  IF denied # None THEN [resp |-> denied, CART |-> cart]
        ELSE [resp |-> JSONResponse([success |-> TRUE, cart_items |-> Len(added[user_id]),
                                     total |-> cart_total(added[user_id])]),
              CART |-> added]

create_payment_intent(payload, authorization, U, clk, intents) ==
    LET denied == _require_user_access(payload.user_id, get_current_user(authorization, U, clk))
        intent == [intent_id |-> <<"p", "i", "_">> \o str(Len(intents) + 1),
                   user_id |-> payload.user_id,
                   amount |-> round(payload.amount, 2),
                   status |-> "requires_confirmation",
                   confirmed_at |-> None]
    IN  IF denied # None THEN [resp |-> denied, PAYMENT_INTENTS |-> intents]
        ELSE IF payload.amount <= 0
        THEN [resp |-> JSONResponse([error |-> "Amount must be greater than zero"]),
              PAYMENT_INTENTS |-> intents]
        ELSE [resp |-> JSONResponse(intent), PAYMENT_INTENTS |-> Append(intents, intent)]

confirm_payment_intent_any_owner(payload, authorization, U, clk, intents) ==
    LET denied == _require_user_access(payload.user_id, get_current_user(authorization, U, clk))
        error(msg) == [resp |-> JSONResponse([error |-> msg]), PAYMENT_INTENTS |-> intents]
        hits == {i \in DOMAIN intents : intents[i].intent_id = payload.intent_id}
        first == CHOOSE i \in hits : \A j \in hits : i <= j
        intent == [intents[first] EXCEPT !.status = "confirmed",
                                         !.confirmed_at = [utcnow |-> clk]]
    IN  IF denied # None THEN [resp |-> denied, PAYMENT_INTENTS |-> intents]
        ELSE IF hits = {} THEN error("Payment intent not found")
        ELSE [resp |-> JSONResponse(intent),
              PAYMENT_INTENTS |-> [intents EXCEPT ![first] = intent]]

confirm_payment_intent(payload, authorization, U, clk, intents) ==
    LET denied == _require_user_access(payload.user_id, get_current_user(authorization, U, clk))
        error(msg) == [resp |-> JSONResponse([error |-> msg]), PAYMENT_INTENTS |-> intents]
        hits == {i \in DOMAIN intents : intents[i].intent_id = payload.intent_id}
        first == CHOOSE i \in hits : \A j \in hits : i <= j
        intent == [intents[first] EXCEPT !.status = "confirmed",
                                         !.confirmed_at = [utcnow |-> clk]]
    IN  IF denied # None THEN [resp |-> denied, PAYMENT_INTENTS |-> intents]
        ELSE IF hits = {} THEN error("Payment intent not found")
        ELSE IF intents[first].user_id # payload.user_id
        THEN error("Payment intent user mismatch")
        ELSE [resp |-> JSONResponse(intent),
              PAYMENT_INTENTS |-> [intents EXCEPT ![first] = intent]]

checkout_unconfirmed(user_id, payload, authorization, U, clk, cart, orders, intents) ==
    LET denied == _require_user_access(user_id, get_current_user(authorization, U, clk))
        return(body, c, o) == [resp |-> JSONResponse(body), CART |-> c, ORDERS |-> o]
        error(msg) == return([error |-> msg], cart, orders)
        total == cart_total(cart[user_id])
        \* if payload.payment_intent_id: neither None nor ""
        paying == "payment_intent_id" \in DOMAIN payload /\ payload.payment_intent_id # <<>>
        hits == {i \in DOMAIN intents : intents[i].intent_id = payload.payment_intent_id}
        matched == intents[CHOOSE i \in hits : \A j \in hits : i <= j]
        order_id == IF orders = <<>> THEN 1
                    ELSE 1 + CHOOSE m \in {orders[i].id : i \in DOMAIN orders} :
                                 \A i \in DOMAIN orders : orders[i].id <= m
        order == [id |-> order_id, user_id |-> user_id, items |-> cart[user_id],
                  total_price |-> total, shipping_address |-> payload.address,
                  status |-> "pending"]
    IN  IF denied # None THEN [resp |-> denied, CART |-> cart, ORDERS |-> orders]
        ELSE IF user_id \notin DOMAIN cart \/ cart[user_id] = <<>> THEN error("Cart is empty")
        ELSE IF paying /\ hits = {} THEN error("Payment intent not found")
        ELSE IF paying /\ matched.user_id # user_id THEN error("Payment intent user mismatch")
        ELSE IF paying /\ matched.amount + MILLI < total
        THEN error("Payment amount is lower than checkout total")
        ELSE return([success |-> TRUE, order_id |-> order_id, total |-> total,
                     status |-> "pending",
                     payment_status |-> IF paying THEN matched.status ELSE "not_required"],
                    [cart EXCEPT ![user_id] = <<>>], Append(orders, order))

checkout(user_id, payload, authorization, U, clk, cart, orders, intents) ==
    LET denied == _require_user_access(user_id, get_current_user(authorization, U, clk))
        return(body, c, o) == [resp |-> JSONResponse(body), CART |-> c, ORDERS |-> o]
        error(msg) == return([error |-> msg], cart, orders)
        total == cart_total(cart[user_id])
        \* if payload.payment_intent_id: neither None nor ""
        paying == "payment_intent_id" \in DOMAIN payload /\ payload.payment_intent_id # <<>>
        hits == {i \in DOMAIN intents : intents[i].intent_id = payload.payment_intent_id}
        matched == intents[CHOOSE i \in hits : \A j \in hits : i <= j]
        order_id == IF orders = <<>> THEN 1
                    ELSE 1 + CHOOSE m \in {orders[i].id : i \in DOMAIN orders} :
                                 \A i \in DOMAIN orders : orders[i].id <= m
        order == [id |-> order_id, user_id |-> user_id, items |-> cart[user_id],
                  total_price |-> total, shipping_address |-> payload.address,
                  status |-> "pending"]
    IN  IF denied # None THEN [resp |-> denied, CART |-> cart, ORDERS |-> orders]
        ELSE IF user_id \notin DOMAIN cart \/ cart[user_id] = <<>> THEN error("Cart is empty")
        ELSE IF paying /\ hits = {} THEN error("Payment intent not found")
        ELSE IF paying /\ matched.user_id # user_id THEN error("Payment intent user mismatch")
        ELSE IF paying /\ matched.status # "confirmed" THEN error("Payment is not confirmed")
        ELSE IF paying /\ matched.amount + MILLI < total
        THEN error("Payment amount is lower than checkout total")
        ELSE return([success |-> TRUE, order_id |-> order_id, total |-> total,
                     status |-> "pending",
                     payment_status |-> IF paying THEN matched.status ELSE "not_required"],
                    [cart EXCEPT ![user_id] = <<>>], Append(orders, order))

\* the Authorization headers of the clients of the shop: none, or an access
\* token obtained from /auth/login
Callers ==
    {[kind |-> "absent", prefix |-> "", rest |-> Garbage]}
    \cup {[kind |-> "text", prefix |-> "Bearer ", rest |-> t] :
            t \in {i \in issued : Get(i.body.claims, "type", "None") = "access"}}

\* CartItem bodies: 2 x 50.0, 1 x 100.0005 and 1 x 100.002
CartItems ==
    {[product_id |-> 1, seller_id |-> 1, quantity |-> 2, price |-> 50 * UNIT],
     [product_id |-> 2, seller_id |-> 1, quantity |-> 1, price |-> 100 * UNIT + 5],
     [product_id |-> 3, seller_id |-> 1, quantity |-> 1, price |-> 100 * UNIT + 20]}

\* a client without a session signs in with the password of its account
SignIn ==
    \E payload \in {[email |-> Text.demo_email, password |-> Text.demo_password],
                    [email |-> Text.test_email, password |-> Text.test_password]} :
        /\ \A t \in issued : Get(t.body.claims, "email", <<>>) # payload.email
        /\ Apply("login", payload,
                 login(payload, users, refresh_tokens, now, 0, Cardinality(issued)))

AddToCart ==
    \E user_id \in DOMAIN users, item \in CartItems, authorization \in Callers :
        LET e == add_to_cart(user_id, item, authorization, users, now, CART) IN
        \* at most MaxCart items, all in one cart
        /\ \A u \in DOMAIN e.CART : Len(e.CART[u]) <= MaxCart
        /\ Cardinality({u \in DOMAIN e.CART : e.CART[u] # <<>>}) <= 1
        /\ CART' = e.CART
        /\ last' = Last("add_to_cart",
                        [user_id |-> user_id, item |-> item],
                        e.resp)
        /\ UNCHANGED <<now, users, refresh_tokens, issued, ticks, directs, reqs, codec,
                       ORDERS, PAYMENT_INTENTS, MESSAGES, active_connections, websockets>>

CreatePaymentIntent ==
    \E user_id \in DOMAIN users, amount \in {0, 100 * UNIT + 49}, authorization \in Callers :
        LET payload == [user_id |-> user_id, amount |-> amount]
            e == create_payment_intent(payload, authorization, users, now, PAYMENT_INTENTS)
        IN  /\ Len(e.PAYMENT_INTENTS) <= MaxIntents
            /\ PAYMENT_INTENTS' = e.PAYMENT_INTENTS
            /\ last' = Last("create_payment_intent",
                            payload, e.resp)
            /\ UNCHANGED <<now, users, refresh_tokens, issued, ticks, directs, reqs, codec,
                           CART, ORDERS, MESSAGES, active_connections, websockets>>

\* the intent ids a client may name: those created, and one that was not
IntentIds ==
    {PAYMENT_INTENTS[i].intent_id : i \in DOMAIN PAYMENT_INTENTS} \cup {<<"p", "i", "_", "0">>}

ConfirmPaymentIntent ==
    \E user_id \in DOMAIN users, intent_id \in IntentIds, authorization \in Callers :
        LET payload == [intent_id |-> intent_id, user_id |-> user_id]
            e == confirm_payment_intent(payload, authorization, users, now, PAYMENT_INTENTS)
        IN  /\ PAYMENT_INTENTS' = e.PAYMENT_INTENTS
            /\ last' = Last("confirm_payment_intent",
                            payload, e.resp)
            /\ UNCHANGED <<now, users, refresh_tokens, issued, ticks, directs, reqs, codec,
                           CART, ORDERS, MESSAGES, active_connections, websockets>>

\* CheckoutRequest bodies: without payment_intent_id, with "", with an intent id
CheckoutRequests ==
    {[address |-> "123 Test Street"]}
    \cup {[address |-> "123 Test Street", payment_intent_id |-> i] : i \in IntentIds \cup {<<>>}}

Checkout ==
    \E user_id \in DOMAIN users, payload \in CheckoutRequests, authorization \in Callers :
        LET e == checkout(user_id, payload, authorization, users, now,
                          CART, ORDERS, PAYMENT_INTENTS)
        IN  /\ Len(e.ORDERS) <= MaxOrders
            /\ CART' = e.CART
            /\ ORDERS' = e.ORDERS
            /\ last' = Last("checkout",
                            [user_id |-> user_id, payload |-> payload], e.resp)
            /\ UNCHANGED <<now, users, refresh_tokens, issued, ticks, directs, reqs, codec,
                           PAYMENT_INTENTS, MESSAGES, active_connections, websockets>>

\* the shop behind the authentication core
NextShop ==
    \/ SignIn
    \/ AddToCart
    \/ CreatePaymentIntent
    \/ ConfirmPaymentIntent
    \/ Checkout

SpecShop == Init /\ [][NextShop]_vars

-----------------------------------------------------------------------------
(* Chat over websockets: main.py.  websockets holds the accepted ones, a    *)
(* websocket is its index there; state is where its handler stands          *)
(* ("receiving" in the receive loop, "returned", or "crashed" by an         *)
(* exception that left websocket_chat), peer is "gone" once the client has  *)
(* left, and received is what the client got.  One pass of the receive loop *)
(* is one step.                                                             *)

MaxSockets == 2
MaxChat == 1
MaxReceived == 2

\* _user_from_access_token: the account, or the HTTPException raised; the
\* empty string is the string that is no token with nothing in it
_user_from_access_token(access_token, U, clk) ==
    LET decoded == decode_token(access_token, clk) IN
    IF access_token = [Garbage EXCEPT !.hdr = ""]
    THEN HTTPException(401, "Missing access token.")
    ELSE IF decoded.exc = "ValueError" THEN HTTPException(401, decoded.err)
    ELSE IF ~decoded.ok THEN HTTPException(500, decoded.exc)
    ELSE IF Get(decoded.payload, "type", "None") # "access"
    THEN HTTPException(401, "Invalid token type.")
    ELSE IF ~IsNumeric(Get(decoded.payload, "sub", <<"0">>))
    THEN HTTPException(500, "ValueError")
    ELSE LET user == get_user_by_id(U, int(Get(decoded.payload, "sub", <<"0">>)))
         IN  IF user = None THEN HTTPException(401, "User not found.") ELSE user

\* ChatConnectionManager.disconnect
disconnect(conns, user_id, websocket) ==
    LET connections == IF user_id \in DOMAIN conns
                       THEN SelectSeq(conns[user_id], LAMBDA w : w # websocket)
                       ELSE <<>>
    IN  IF user_id \notin DOMAIN conns THEN conns
        ELSE IF connections = <<>> THEN [u \in DOMAIN conns \ {user_id} |-> conns[u]]
        ELSE [conns EXCEPT ![user_id] = connections]

send_to_everyone(conns, socks, user_id, payload, raising) ==
    LET targets == UNION {{conns[u][i] : i \in DOMAIN conns[u]} : u \in DOMAIN conns}
        delivered == {w \in targets : socks[w].state = "receiving" /\ socks[w].peer = "open"}
        failed == {w \in targets : \/ socks[w].state # "receiving"
                                   \/ socks[w].peer = "gone" /\ w \in raising}
        RECURSIVE drop(_, _)
        drop(c, F) == IF F = {} THEN c
                      ELSE LET w == CHOOSE w \in F : TRUE
                           IN  drop(disconnect(c, socks[w].user_id, w), F \ {w})
    IN  [active_connections |-> drop(conns, failed),
         websockets |-> [w \in DOMAIN socks |->
                            IF w \in delivered
                            THEN [socks[w] EXCEPT !.received = Append(@, payload)]
                            ELSE socks[w]]]

\* ChatConnectionManager.send_to: send_json raises on a websocket whose handler
\* has left, and may raise (for those in raising) on one whose client is gone
send_to(conns, socks, user_id, payload, raising) ==
    LET targets == IF user_id \in DOMAIN conns
                   THEN {conns[user_id][i] : i \in DOMAIN conns[user_id]} ELSE {}
        delivered == {w \in targets : socks[w].state = "receiving" /\ socks[w].peer = "open"}
        failed == {w \in targets : \/ socks[w].state # "receiving"
                                   \/ socks[w].peer = "gone" /\ w \in raising}
        RECURSIVE drop(_, _)
        drop(c, F) == IF F = {} THEN c
                      ELSE LET w == CHOOSE w \in F : TRUE
                           IN  drop(disconnect(c, socks[w].user_id, w), F \ {w})
    IN  [active_connections |-> drop(conns, failed),
         websockets |-> [w \in DOMAIN socks |->
                            IF w \in delivered
                            THEN [socks[w] EXCEPT !.received = Append(@, payload)]
                            ELSE socks[w]]]

\* one pass of the receive loop of websocket_chat, on json payload (a dict of
\* Python values) received by websocket
websocket_chat(websocket, payload, raising, conns, socks, msgs) ==
    LET user_id == socks[websocket].user_id
        receiver_id == int_of_value(dict_get(payload, <<"r", "e", "c", "e", "i", "v", "e", "r", "_", "i", "d">>, [int |-> 0]))
        value == dict_get(payload, <<"c", "o", "n", "t", "e", "n", "t">>, [str |-> <<>>])
        content == strip(IF "str" \in DOMAIN value THEN value.str ELSE str(value.int))
        new_id == 1 + (IF msgs = <<>> THEN 0
                       ELSE CHOOSE m \in {msgs[i].id : i \in DOMAIN msgs} :
                                \A i \in DOMAIN msgs : msgs[i].id <= m)
        message == [id |-> new_id, sender_id |-> user_id, receiver_id |-> receiver_id.val,
                    content |-> content]
        envelope == [type |-> "message", message |-> message]
        own == send_to(conns, socks, user_id, envelope, raising)
        both == IF receiver_id.val # user_id
                THEN send_to(own.active_connections, own.websockets, receiver_id.val,
                             envelope, raising)
                ELSE own
    IN  IF ~receiver_id.ok
        THEN [MESSAGES |-> msgs, active_connections |-> conns,
              websockets |-> [socks EXCEPT ![websocket].state = "crashed"]]
        ELSE IF receiver_id.val <= 0 \/ content = <<>>
        THEN [MESSAGES |-> msgs, active_connections |-> conns,
              websockets |-> [socks EXCEPT ![websocket].received =
                                 Append(@, [type |-> "error",
                                            detail |-> "receiver_id and content are required."])]]
        ELSE [MESSAGES |-> Append(msgs, message),
              active_connections |-> both.active_connections,
              websockets |-> both.websockets]

\* websocket_chat up to its loop: the token is resolved, the path user id is
\* compared, and the websocket is closed or connected
websocket_chat_connect(user_id, token, U, clk, conns, socks) ==
    LET authed_user == _user_from_access_token(token, U, clk)
        websocket == Len(socks) + 1
        accepted == [user_id |-> user_id, state |-> "receiving", peer |-> "open",
                     received |-> <<[type |-> "connected", user_id |-> user_id]>>]
        \* websocket.close(code=1008, reason=...), or an exception other than
        \* HTTPException leaving the handler
        outcome == IF "status" \in DOMAIN authed_user
                   THEN IF authed_user.status = 401
                        THEN [close |-> 1008, reason |-> authed_user.detail]
                        ELSE [raised |-> authed_user.detail]
                   ELSE IF authed_user.id # user_id
                   THEN [close |-> 1008, reason |-> "Forbidden user scope."]
                   ELSE accepted
    IN  IF outcome = accepted
        THEN [outcome |-> outcome,
              websockets |-> Append(socks, accepted),
              \* ChatConnectionManager.connect
              active_connections |->
                  [u \in DOMAIN conns \cup {user_id} |->
                      IF u = user_id
                      THEN Append(IF u \in DOMAIN conns THEN conns[u] ELSE <<>>, websocket)
                      ELSE conns[u]]]
        ELSE [outcome |-> outcome, websockets |-> socks, active_connections |-> conns]

\* a client opens /ws/chat/{user_id}?token=...
WebsocketChat ==
    \E user_id \in DOMAIN users,
       token \in issued \cup {[Garbage EXCEPT !.hdr = ""], NonAsciiSignature} :
        LET e == websocket_chat_connect(user_id, token, users, now,
                                        active_connections, websockets)
        IN  /\ Len(e.websockets) <= MaxSockets
            /\ websockets' = e.websockets
            /\ active_connections' = e.active_connections
            /\ last' = Last("websocket_chat", [user_id |-> user_id, token |-> token],
                            e.outcome)
            /\ UNCHANGED <<now, users, refresh_tokens, issued, ticks, directs, reqs, codec,
                           CART, ORDERS, PAYMENT_INTENTS, MESSAGES>>

\* the handler of an open websocket receives a json payload from its client
ReceiveJson ==
    \E websocket \in DOMAIN websockets,
       receiver_id \in {[int |-> 0], [int |-> 2], [int |-> 3], [str |-> <<"x">>]},
       content \in {[str |-> <<"h", "i">>], [str |-> <<" ">>]},
       raising \in SUBSET {w \in DOMAIN websockets : /\ websockets[w].state = "receiving"
                                                      /\ websockets[w].peer = "gone"} :
        LET payload == << <<(<<"r", "e", "c", "e", "i", "v", "e", "r", "_", "i", "d">>), receiver_id>>,
                          <<(<<"c", "o", "n", "t", "e", "n", "t">>), content>> >>
            e == websocket_chat(websocket, payload, raising, active_connections,
                                websockets, MESSAGES)
        IN  /\ websockets[websocket].state = "receiving"
            /\ websockets[websocket].peer = "open"
            /\ Len(e.MESSAGES) <= 3 + MaxChat
            /\ \A w \in DOMAIN e.websockets : Len(e.websockets[w].received) <= MaxReceived
            /\ MESSAGES' = e.MESSAGES
            /\ active_connections' = e.active_connections
            /\ websockets' = e.websockets
            /\ last' = Last("receive_json", [websocket |-> websocket, payload |-> payload],
                            e.websockets[websocket])
            /\ UNCHANGED <<now, users, refresh_tokens, issued, ticks, directs, reqs, codec,
                           CART, ORDERS, PAYMENT_INTENTS>>

\* the client of an open websocket goes away
ClientClose ==
    \E websocket \in DOMAIN websockets :
        /\ websockets[websocket].state = "receiving"
        /\ websockets[websocket].peer = "open"
        /\ websockets' = [websockets EXCEPT ![websocket].peer = "gone"]
        /\ UNCHANGED <<now, users, refresh_tokens, issued, ticks, directs, last, reqs, codec,
                       CART, ORDERS, PAYMENT_INTENTS, MESSAGES, active_connections>>

\* receive_json raises WebSocketDisconnect in the handler of a websocket whose
\* client is gone
WebSocketDisconnect ==
    \E websocket \in DOMAIN websockets :
        /\ websockets[websocket].state = "receiving"
        /\ websockets[websocket].peer = "gone"
        /\ active_connections' =
              disconnect(active_connections, websockets[websocket].user_id, websocket)
        /\ websockets' = [websockets EXCEPT ![websocket].state = "returned"]
        /\ UNCHANGED <<now, users, refresh_tokens, issued, ticks, directs, last, reqs, codec,
                       CART, ORDERS, PAYMENT_INTENTS, MESSAGES>>

\* the chat behind the authentication core
NextChat ==
    \/ SignIn
    \/ WebsocketChat
    \/ ReceiveJson
    \/ ClientClose
    \/ WebSocketDisconnect

SpecChat == Init /\ [][NextChat]_vars

----------------------------------------------------------------------------
(* Properties of the session protocol and the ledger *)

InvalidRefreshToken == HTTPException(401, "Invalid refresh token.")
AccountNotFound == HTTPException(401, "User not found.")
WrongTokenType == HTTPException(401, "Invalid token type.")

\* the ledger rows kept for token string t
RowsOf(L, t) == {r \in L : r.token = t}

\* a record of t exists, is not revoked and expires after clk
LedgerAccepts(L, t, clk) ==
    \E r \in L : r.token = t /\ r.revoked = 0 /\ r.expires_at > clk

\* t carries the signature _sign makes of its own header and payload, and
\* its embedded exp lies after clk
SignedAndUnexpired(t, clk) ==
    /\ t.nparts = 3 /\ ~t.lpad /\ ~t.rpad
    /\ t.sig = _sign(t.hdr, t.body)
    /\ t.body.json = "dict"
    /\ Get(t.body.claims, "exp", 0) > clk

Bearer(t) == [kind |-> "text", prefix |-> "Bearer ", rest |-> t]

\* C1: refresh(r) twice in sequence, for an issued refresh token r that is
\* ledger-valid and decodes: the first call succeeds and returns a pair of
\* newly minted tokens, the second call with the same r fails with
\* InvalidRefreshToken (401 "Invalid refresh token.").
C1_SingleUseRotation ==
    \A r \in RefreshTokensOf(issued), d1 \in Delays, d2 \in Delays :
        (LedgerAccepts(refresh_tokens, r, now) /\ SignedAndUnexpired(r, now)) =>
            LET first == refresh_token(r, users, refresh_tokens, now, d1,
                                       Cardinality(issued))
                second == refresh_token(r, first.users, first.ledger, first.clk, d2,
                                        Cardinality(issued \cup first.minted))
            IN  /\ first.resp.status = 200
                /\ first.minted = {first.resp.access_token, first.resp.refresh_token}
                /\ first.minted \cap issued = {}
                /\ first.resp.access_token # first.resp.refresh_token
                /\ second.resp = InvalidRefreshToken
                /\ second.minted = {}

\* a second refresh of a rotated, still unexpired token has been rejected
C1_Witness ==
    /\ last.op = "refresh"
    /\ last.resp = InvalidRefreshToken
    /\ last.presented \in RefreshTokensOf(issued)
    /\ SignedAndUnexpired(last.presented, now)
    /\ \E r \in refresh_tokens :
          r.token = last.presented /\ r.revoked = 1 /\ r.expires_at > now

\* C4: after a successful refresh(r) the record of r is revoked, the returned
\* refresh token r2 differs from r and has an unrevoked record owned by the
\* account that r's sub names, and the returned access token carries r's sub.
C4_RefreshPostcondition ==
    \A r \in {row.token : row \in refresh_tokens}, d \in Delays :
        LET e == refresh_token(r, users, refresh_tokens, now, d, Cardinality(issued))
            r2 == e.resp.refresh_token
        IN  e.resp.status = 200 =>
                /\ RowsOf(e.ledger, r) # {}
                /\ \A row \in RowsOf(e.ledger, r) : row.revoked = 1
                /\ r2 # r
                /\ \E row \in RowsOf(e.ledger, r2) :
                      /\ row.revoked = 0
                      /\ str(row.user_id) = r.body.claims.sub
                      /\ get_user_by_id(e.users, row.user_id) = e.resp.user
                /\ Cardinality(RowsOf(e.ledger, r2)) = 1
                /\ decode_token(e.resp.access_token, e.clk).ok
                /\ decode_token(e.resp.access_token, e.clk).payload.sub
                      = r.body.claims.sub
                /\ decode_token(e.resp.access_token, e.clk).payload.type = "access"

\* a refresh has succeeded: the presented token is revoked, the returned one is live
C4_Witness ==
    /\ last.op = "refresh"
    /\ last.resp.status = 200
    /\ \E row \in refresh_tokens : row.token = last.presented /\ row.revoked = 1
    /\ \E row \in refresh_tokens :
          row.token = last.resp.refresh_token /\ row.revoked = 0
    /\ last.resp.refresh_token # last.presented

\* the outcome claimed for a presented string the ledger does not hold valid
RejectedUntouched(raw, d) ==
    LET e == refresh_token(raw, users, refresh_tokens, now, d, Cardinality(issued)) IN
    /\ e.resp = InvalidRefreshToken
    /\ e.minted = {}
    /\ e.ledger = refresh_tokens
    /\ e.users = users

C8_CompromiseResponse ==
    \A t \in Presentable, d \in Delays :
        (LedgerAccepts(refresh_tokens, t, now) /\ ~decode_token(t, now).ok) =>
            LET e == refresh_token(t, users, refresh_tokens, now, d, Cardinality(issued))
            IN  /\ \A row \in RowsOf(e.ledger, t) : row.revoked = 1
                /\ e.minted = {}
                /\ e.resp = InvalidRefreshToken

\* C10: resolve_identity rejects every validly signed, unexpired token whose
\* type claim is not "access" with WrongTokenType, and returns no account.
C10_NoRefreshAsAccess ==
    \A t \in {h.rest : h \in Headers} :
        (SignedAndUnexpired(t, now) /\ Get(t.body.claims, "type", "None") # "access") =>
            get_current_user(Bearer(t), users, now) = WrongTokenType

\* a bearer token that decoded but is no access token was rejected, while a
\* live refresh token is in circulation
C10_Witness ==
    /\ last.op = "resolve_identity"
    /\ last.resp = WrongTokenType
    /\ \E t \in RefreshTokensOf(issued) :
          SignedAndUnexpired(t, now) /\ LedgerAccepts(refresh_tokens, t, now)

----------------------------------------------------------------------------
(* Properties of the ledger used directly *)

\* the token strings and clock values the ledger is asked about
ClockValues ==
    {now} \cup UNION {{row.expires_at - 1, row.expires_at, row.expires_at + 1} :
                        row \in refresh_tokens}

\* C3: once a record is revoked, no ledger operation (a later save of the same
\* token included) makes it unrevoked again or removes it.
C3_NoLostRevoke ==
    [][\A row \in refresh_tokens :
          row.revoked = 1 =>
              /\ RowsOf(refresh_tokens', row.token) # {}
              /\ \A row2 \in RowsOf(refresh_tokens', row.token) : row2.revoked = 1]_vars

\* C5: is_valid(t) at clock value clk is true exactly when a record of t
\* exists, is not revoked and has expires_at > clk.
C5_IsValidIff ==
    \A t \in Presentable \cup {row.token : row \in refresh_tokens}, clk \in ClockValues :
        is_refresh_token_valid(refresh_tokens, t, clk)
            <=> (/\ RowsOf(refresh_tokens, t) # {}
                 /\ \A row \in RowsOf(refresh_tokens, t) :
                       row.revoked = 0 /\ row.expires_at > clk)

\* the ledger check has rejected a token whose unrevoked record expires now
C5_Witness ==
    /\ last.op = "refresh"
    /\ last.resp = InvalidRefreshToken
    /\ \E row \in refresh_tokens :
          row.token = strip_token(last.presented) /\ row.revoked = 0 /\ row.expires_at = now
    /\ \E row \in refresh_tokens : row.revoked = 1
    /\ \E row \in refresh_tokens : row.revoked = 0 /\ row.expires_at > now

\* C6: for a refresh token r, is_valid(r) is true right after save(r, user,
\* expires_at) with expires_at > now, false right after revoke(r), and false
\* in every state whose clock has reached the expires_at of r's record.
C6_LedgerLifecycle ==
    /\ \A r \in RefreshTokensOf(issued), user_id \in {1, 2},
          expires_at \in {now + 1, now + REFRESH_TOKEN_TTL_SECONDS} :
          RowsOf(refresh_tokens, r) = {} =>
              is_refresh_token_valid(
                  save_refresh_token(refresh_tokens, r, user_id, expires_at, now), r, now)
    /\ \A r \in RefreshTokensOf(issued), clk \in ClockValues :
          ~is_refresh_token_valid(revoke_refresh_token(refresh_tokens, r), r, clk)
    /\ \A row \in refresh_tokens :
          now >= row.expires_at => ~is_refresh_token_valid(refresh_tokens, row.token, now)

\* a saved refresh token was revoked while unexpired, another record has expired
C6_Witness ==
    /\ last.op = "revoke"
    /\ \E r \in RefreshTokensOf(issued) : RowsOf(refresh_tokens, r) = {}
    /\ \E row \in refresh_tokens :
          /\ row.token \in RefreshTokensOf(issued)
          /\ row.revoked = 1 /\ row.expires_at > now
    /\ \E row \in refresh_tokens : row.revoked = 0 /\ row.expires_at <= now

\* C9: refresh(t) with a token t that the ledger holds valid and that decodes,
\* but whose sub names no account, fails with AccountNotFound, leaves the
\* record of t revoked and issues no tokens.
C9_AccountGone ==
    \A t \in Presentable, d \in Delays :
        (/\ LedgerAccepts(refresh_tokens, t, now)
         /\ SignedAndUnexpired(t, now)
         /\ \A i \in DOMAIN users : str(users[i].id) # t.body.claims.sub) =>
            LET e == refresh_token(t, users, refresh_tokens, now, d, Cardinality(issued))
            IN  /\ e.resp = AccountNotFound
                /\ RowsOf(e.ledger, t) # {}
                /\ \A row \in RowsOf(e.ledger, t) : row.revoked = 1
                /\ e.minted = {}
                /\ e.users = users

\* a refresh for a vanished account was rejected and its token revoked
C9_Witness ==
    /\ last.op = "refresh"
    /\ last.resp = AccountNotFound
    /\ \E row \in refresh_tokens : row.token = last.presented /\ row.revoked = 1
    /\ \A i \in DOMAIN users : str(users[i].id) # last.presented.body.claims.sub

----------------------------------------------------------------------------
(* Properties of refresh requests in flight together *)

\* C2: of the in-flight refresh requests that presented the same refresh
\* token, at most one returns a new access/refresh pair.
C2_SingleUseUnderConcurrency ==
    \A i \in Requests, j \in Requests :
        (/\ i # j
         /\ reqs[i].pc = "done" /\ reqs[j].pc = "done"
         /\ reqs[i].token = reqs[j].token
         /\ reqs[i].resp.status = 200) => reqs[j].resp.status # 200

----------------------------------------------------------------------------
(* Properties of the token codec *)

\* t is an unpadded three-part string that carries the signature _sign makes
\* of its own header and payload, over a JSON object
ValidlySigned(t) ==
    /\ t.nparts = 3 /\ ~t.lpad /\ ~t.rpad /\ t.ascii
    /\ t.sig = _sign(t.hdr, t.body)
    /\ t.body.json = "dict"

Unauthorized(detail) == HTTPException(401, detail)

\* C11: a validly signed token decodes at every clock value before its exp and
\* fails with TokenExpired at exp and at every later one; resolve_identity with
\* an access token of an existing account succeeds at exp - 1 and is rejected
\* as Unauthorized at exp and later.
C11_ExpiryBoundary ==
    \A t \in {h.rest : h \in Headers} :
        ValidlySigned(t) =>
            LET exp == Get(t.body.claims, "exp", 0)
                late == {exp, exp + 1, exp + REFRESH_TOKEN_TTL_SECONDS}
            IN  /\ \A clk \in {exp - 1, now} \cup late :
                      /\ clk < exp =>
                            /\ decode_token(t, clk).ok
                            /\ decode_token(t, clk).payload = t.body.claims
                      /\ clk >= exp =>
                            /\ ~decode_token(t, clk).ok
                            /\ decode_token(t, clk).exc = "ValueError"
                            /\ decode_token(t, clk).err = "Token expired"
                /\ (/\ Get(t.body.claims, "type", "None") = "access"
                    /\ \E i \in DOMAIN users : str(users[i].id) = t.body.claims.sub) =>
                       /\ get_current_user(Bearer(t), users, exp - 1).status = 200
                       /\ \A clk \in late :
                             get_current_user(Bearer(t), users, clk)
                                 = Unauthorized("Token expired")

\* an access token was rejected as expired in the very second of its exp
C11_Witness ==
    /\ last.op = "resolve_identity"
    /\ last.resp = Unauthorized("Token expired")
    /\ last.presented.rest \in issued
    /\ ValidlySigned(last.presented.rest)
    /\ last.presented.rest.body.claims.type = "access"
    /\ last.presented.rest.body.claims.exp = now

\* the result of a decode that raised ValueError(msg)
Raised(msg) == [ok |-> FALSE, exc |-> "ValueError", err |-> msg, payload |-> <<>>]

C13_RoundTrip ==
    (/\ codec.op = "decode"
     /\ ~codec.tampered
     /\ dict_get(codec.payload, Text.exp, [int |-> 0]).int > now)
        => codec.result = [ok |-> TRUE, exc |-> "", err |-> "",
                           payload |-> codec.payload]

\* an unexpired token whose payload part needs base64 padding and whose claims
\* hold characters that JSON escapes was decoded to the claims it was made of
C13_Witness ==
    /\ codec.op = "decode"
    /\ ~codec.tampered
    /\ Len(codec.token[2]) % 4 # 0
    /\ dict_get(codec.payload, Text.email, None) = [str |-> Text.quoted_email]
    /\ now > StartTime
    /\ codec.result.ok
    /\ codec.result.payload = codec.payload

----------------------------------------------------------------------------
(* Properties of the session protocol: login and register *)

InvalidCredentials == HTTPException(401, "Invalid email or password.")

\* the login attempts with a well-formed email that names no account
UnknownEmailLogins ==
    {p \in LoginPayloads :
        /\ EMAIL_RE(lower(strip(p.email)))
        /\ RowByEmail(users, p.email) = None}

\* the login attempts that name an existing account with a wrong password
WrongPasswordLogins ==
    {p \in LoginPayloads :
        /\ EMAIL_RE(lower(strip(p.email)))
        /\ RowByEmail(users, p.email) # None
        /\ ~verify_password(p.password, RowByEmail(users, p.email).password_hash).value}

C15_GenericUnauthorized ==
    LET \* the bearer headers whose token fails decode with one of the token-layer
        \* failures (malformed, invalid signature, invalid payload, expired)
        FailingBearers ==
            {h \in Headers :
                /\ h.kind = "text"
                /\ h.prefix = "Bearer "
                /\ decode_token(strip_token(h.rest), now).exc = "ValueError"}
    IN  \A h1, h2 \in FailingBearers :
            /\ get_current_user(h1, users, now).status = 401
            /\ get_current_user(h1, users, now) = get_current_user(h2, users, now)

\* the register payloads that pass the checks made before create_user
AcceptableRegistrations ==
    {p \in RegisterPayloads :
        /\ USERNAME_RE(lower(strip(p.username)))
        /\ EMAIL_RE(lower(strip(p.email)))
        /\ _validate_password_strength(p.password)}

EmailTaken(p) == \E i \in DOMAIN users : users[i].email = lower(strip(p.email))
UsernameTaken(p) == \E i \in DOMAIN users : users[i].username = lower(strip(p.username))

\* C16: register fails with the duplicate-identity failure naming the email
\* when the normalized email is already registered, naming the username when
\* only the normalized username is taken; on that failure no account is
\* created, no token is issued and no ledger record is added.
C16_DuplicateIdentity ==
    \A p \in AcceptableRegistrations, d \in Delays :
        LET e == register(p, users, refresh_tokens, now, d, Cardinality(issued)) IN
        /\ EmailTaken(p) =>
              e = Effect(HTTPException(409, "Email already used"),
                         users, refresh_tokens, now, {})
        /\ (~EmailTaken(p) /\ UsernameTaken(p)) =>
              e = Effect(HTTPException(409, "Username unavailable"),
                         users, refresh_tokens, now, {})

\* a registration whose email and username are both taken was just rejected,
\* the failure naming the email
C16_Witness ==
    /\ last.op = "register"
    /\ last.presented \in AcceptableRegistrations
    /\ EmailTaken(last.presented)
    /\ UsernameTaken(last.presented)
    /\ last.resp = HTTPException(409, "Email already used")

\* C17: no two accounts have the same email and no two the same username,
\* both compared after trim-and-lowercase normalization, and every stored
\* email and username equals its own normalization.
C17_AccountUniqueness ==
    /\ \A i, j \in DOMAIN users :
          i # j =>
              /\ lower(strip(users[i].email)) # lower(strip(users[j].email))
              /\ lower(strip(users[i].username)) # lower(strip(users[j].username))
    /\ \A i \in DOMAIN users :
          /\ users[i].email = lower(strip(users[i].email))
          /\ users[i].username = lower(strip(users[i].username))

\* an account registered with padded upper-case email and username stands next
\* to the seeded ones, stored normalized, and the same identity in another
\* spelling is refused
C17_Witness ==
    /\ last.op = "register"
    /\ last.presented.email = Text.AB_email_padded
    /\ last.resp.status = 201
    /\ Len(users) = 3
    /\ users[3].email = Text.ab_email
    /\ users[3].username = Text.ab01
    /\ \E p \in AcceptableRegistrations :
          /\ p.email = Text.ab_email
          /\ register(p, users, refresh_tokens, now, 0, Cardinality(issued)).resp.status = 409

\* what register and login can do in the current state
SessionOutcomes ==
    {register(p, users, refresh_tokens, now, d, Cardinality(issued)) :
        p \in RegisterPayloads, d \in Delays}
    \cup {login(p, users, refresh_tokens, now, d, Cardinality(issued)) :
        p \in LoginPayloads, d \in Delays}

\* resolve_identity returns this account
Resolved(account) == Response(200, "", account, None, None)

\* C18: a successful register or login returns an access and a refresh token
\* whose sub claims both equal the id of the returned account; the refresh
\* token is ledger-valid right afterwards; resolve_identity with the access
\* token returns that account from then until the last second before its exp,
\* and every unexpired access token handed out earlier still resolves to the
\* account its sub names.
C18_SessionEstablished ==
    /\ \A e \in SessionOutcomes :
          Succeeded(e.resp) =>
              LET account == e.resp.user
                  access == decode_token(e.resp.access_token, e.clk)
                  refresh == decode_token(e.resp.refresh_token, e.clk)
              IN  /\ access.ok /\ refresh.ok
                  /\ access.payload.sub = str(account.id)
                  /\ refresh.payload.sub = str(account.id)
                  /\ access.payload.type = "access"
                  /\ refresh.payload.type = "refresh"
                  /\ get_user_by_id(e.users, account.id) = account
                  /\ is_refresh_token_valid(e.ledger, e.resp.refresh_token, e.clk)
                  /\ \A clk \in {e.clk, access.payload.exp - 1} :
                        get_current_user(Bearer(e.resp.access_token), e.users, clk)
                            = Resolved(account)
    /\ \A t \in issued :
          (t.body.claims.type = "access" /\ t.body.claims.exp > now) =>
              /\ get_current_user(Bearer(t), users, now).status = 200
              /\ str(get_current_user(Bearer(t), users, now).user.id) = t.body.claims.sub

\* a registration succeeded and the clock has reached the last second of the
\* returned access token, which still resolves to the registered account
C18_Witness ==
    /\ last.op = "register"
    /\ last.resp.status = 201
    /\ last.resp.access_token.body.claims.sub = str(last.resp.user.id)
    /\ last.resp.refresh_token.body.claims.sub = str(last.resp.user.id)
    /\ now = last.resp.access_token.body.claims.exp - 1
    /\ is_refresh_token_valid(refresh_tokens, last.resp.refresh_token, now)
    /\ get_current_user(Bearer(last.resp.access_token), users, now)
          = Resolved(last.resp.user)

AccessTokensOf(S) ==
    {t \in S : t.body.json = "dict" /\ Get(t.body.claims, "type", "None") = "access"}

\* C19: access tokens are not revocable.  Whatever the ledger holds, every
\* issued access token is accepted by resolve_identity until its exp, with the
\* account its sub names, also after the refresh token of its session has been
\* rotated or revoked; and a resolve_identity call leaves the ledger as it was.
C19_AccessNotRevocable ==
    /\ [](\A t \in AccessTokensOf(issued) :
             t.body.claims.exp > now =>
                 get_current_user(Bearer(t), users, now)
                     = Resolved(get_user_by_id(users, int(t.body.claims.sub))))
    /\ [][(last' # last /\ last'.op = "resolve_identity")
             => refresh_tokens' = refresh_tokens]_vars

\* resolve_identity has just accepted an access token whose session's refresh
\* token is revoked in the ledger
C19_Witness ==
    /\ last.op = "resolve_identity"
    /\ last.resp.status = 200
    /\ last.presented.rest \in AccessTokensOf(issued)
    \* the refresh token minted in the same _build_auth_response call is revoked
    /\ \E r \in RefreshTokensOf(issued) :
          /\ r.body.claims.sub = last.presented.rest.body.claims.sub
          /\ r.body.claims.iat = last.presented.rest.body.claims.iat
          /\ r.body.claims.jti = last.presented.rest.body.claims.jti + 1
          /\ \E row \in refresh_tokens : row.token = r /\ row.revoked = 1

\* C20: whatever string refresh or resolve_identity is given, the operation
\* ends in success or in a typed 401 rejection, never in an uncaught exception
\* (which the server answers with 500).
C20_TypedRejection ==
    /\ \A h \in Headers : get_current_user(h, users, now).status \in {200, 401}
    /\ \A raw \in Presentable \cup {NonAsciiSignature}, d \in Delays :
          refresh_token(raw, users, refresh_tokens, now, d,
                        Cardinality(issued)).resp.status \in {200, 401}

----------------------------------------------------------------------------
(* Properties of the credential codec *)

\* C21: verify fails closed.  For every password and every malformed stored
\* string verify returns false and raises nothing, and a login against an
\* account whose record holds such a string gets the InvalidCredentials
\* response of a wrong password.
C21_FailsClosed ==
    LET good == hash_password(Text.demo_password, 1)
        \* stored strings that hash_password never writes: a wrong number of
        \* fields, an unknown algorithm tag, a non-numeric or zero iteration
        \* field, a salt or key that is no base64 text
        MalformedHashes ==
            {<<>>, SubSeq(good, 1, 3), Append(good, good[4]),
             [good EXCEPT ![1] = "md5"],
             [good EXCEPT ![2] = <<"a", "b", "c">>],
             [good EXCEPT ![2] = <<"0">>],
             [good EXCEPT ![3] = [text |-> "not-base64"]],
             [good EXCEPT ![3] = [text |-> "non-ascii"]],
             [good EXCEPT ![4] = [text |-> "not-base64"]]}
    IN  \A h \in MalformedHashes, p \in {Text.demo_password, Text.wrong} :
            /\ verify_password(p, h) = [raised |-> "", value |-> FALSE]
            /\ login([email |-> Text.demo_email, password |-> p],
                     [users EXCEPT ![1].password_hash = h],
                     refresh_tokens, now, 0, Cardinality(issued)).resp = InvalidCredentials

\* C22: verify(p, hash(p)) is true and verify(p2, hash(p1)) is false for every
\* p1 # p2; so authenticate_user with a seeded account's email returns the
\* account with the password it was created with and with no other.
C22_CredentialCorrectness ==
    LET Passwords == {Text.demo_password, Text.demo_password_nul, Text.test_password,
                      Text.Passw0rd, Text.wrong}
    IN  /\ \A p1, p2 \in Passwords, salt \in 1..2 :
              verify_password(p2, hash_password(p1, salt))
                  = [raised |-> "", value |-> (p1 = p2)]
        /\ \A p \in Passwords :
              (authenticate_user(users, Text.demo_email, p) # None)
                  <=> (p = Text.demo_password)

\* C23: the account view returned by register, login, refresh,
\* resolve_identity and the directory lookups holds the six public fields and
\* neither the credential hash nor the password.
C23_NoCredentialInView ==
    LET Views ==
            {e.resp.user : e \in SessionOutcomes}
            \cup {refresh_token(t, users, refresh_tokens, now, 0,
                                Cardinality(issued)).resp.user : t \in Presentable}
            \cup {get_current_user(h, users, now).user : h \in Headers}
            \cup {get_user_by_id(users, users[i].id) : i \in DOMAIN users}
            \cup {get_user_by_email(users, users[i].email) : i \in DOMAIN users}
            \cup (IF last.op = "init" THEN {} ELSE {last.resp.user})
    IN  \A view \in Views \ {None} :
            DOMAIN view = {"id", "full_name", "username", "email", "provider",
                           "created_at"}

\* a login has just returned the view of an account whose directory row holds
\* a credential hash
C23_Witness ==
    /\ last.op = "login"
    /\ last.resp.status = 200
    /\ "password_hash" \notin DOMAIN last.resp.user
    /\ \E i \in DOMAIN users :
          /\ users[i].id = last.resp.user.id
          /\ verify_password(last.presented.password, users[i].password_hash).value

MissingToken == HTTPException(401, "Missing bearer token.")

\* C24: resolve_identity fails with MissingToken whenever the header is absent,
\* empty or does not start with exactly "Bearer ", whatever follows the prefix
\* (nothing is decoded), and such a call changes no state.
C24_MissingToken ==
    /\ [](\A h \in Headers :
             (h.kind # "text" \/ h.prefix # "Bearer ")
                 => get_current_user(h, users, now) = MissingToken)
    /\ [][(last' # last /\ last'.op = "resolve_identity" /\ last'.resp = MissingToken)
             => UNCHANGED <<now, users, refresh_tokens, issued>>]_vars

\* a header "bearer <token>" with an issued, unexpired access token of an
\* existing account was just refused as MissingToken
C24_Witness ==
    /\ last.op = "resolve_identity"
    /\ last.presented.prefix = "bearer "
    /\ last.presented.rest \in AccessTokensOf(issued)
    /\ get_current_user(Bearer(last.presented.rest), users, now).status = 200
    /\ last.resp = MissingToken

-----------------------------------------------------------------------------
(* Properties of the shop *)

\* a checkout answered with an order
CheckedOut(resp) == resp.status = 200 /\ "success" \in DOMAIN resp.body

\* C25 as stated: a checkout that names a payment intent succeeds only with a
\* non-empty cart and an intent that exists, belongs to the user, is confirmed
\* and has an amount not lower than the cart total; then one order of the user
\* is appended, the cart is emptied and payment_status is "confirmed"; a
\* rejected checkout leaves the carts and the orders as they were.
C25_Original ==
    /\ [](\A user_id \in DOMAIN users, payload \in {p \in CheckoutRequests :
                                  "payment_intent_id" \in DOMAIN p /\ p.payment_intent_id # <<>>},
             authorization \in Callers :
             LET e == checkout(user_id, payload, authorization, users, now,
                               CART, ORDERS, PAYMENT_INTENTS)
                 hits == {i \in DOMAIN PAYMENT_INTENTS :
                             PAYMENT_INTENTS[i].intent_id = payload.payment_intent_id}
             IN  IF CheckedOut(e.resp)
                 THEN /\ user_id \in DOMAIN CART /\ CART[user_id] # <<>>
                      /\ \E i \in hits :
                            /\ PAYMENT_INTENTS[i].user_id = user_id
                            /\ PAYMENT_INTENTS[i].status = "confirmed"
                            /\ PAYMENT_INTENTS[i].amount >= cart_total(CART[user_id])
                      /\ Len(e.ORDERS) = Len(ORDERS) + 1
                      /\ SubSeq(e.ORDERS, 1, Len(ORDERS)) = ORDERS
                      /\ e.ORDERS[Len(e.ORDERS)].user_id = user_id
                      /\ e.ORDERS[Len(e.ORDERS)].items = CART[user_id]
                      /\ e.CART = [CART EXCEPT ![user_id] = <<>>]
                      /\ e.resp.body.payment_status = "confirmed"
                 ELSE e.CART = CART /\ e.ORDERS = ORDERS)
    /\ [][(last' # last /\ last'.op = "checkout" /\ ~CheckedOut(last'.resp))
             => UNCHANGED <<CART, ORDERS>>]_vars

\* C25: as above, except that the intent's amount may be lower than the cart
\* total by up to 0.001 (checkout rejects only amount + 0.001 < total).
C25_CheckoutGatedByPayment ==
    /\ [](\A user_id \in DOMAIN users, payload \in {p \in CheckoutRequests :
                                  "payment_intent_id" \in DOMAIN p /\ p.payment_intent_id # <<>>},
             authorization \in Callers :
             LET e == checkout(user_id, payload, authorization, users, now,
                               CART, ORDERS, PAYMENT_INTENTS)
                 hits == {i \in DOMAIN PAYMENT_INTENTS :
                             PAYMENT_INTENTS[i].intent_id = payload.payment_intent_id}
             IN  IF CheckedOut(e.resp)
                 THEN /\ user_id \in DOMAIN CART /\ CART[user_id] # <<>>
                      /\ \E i \in hits :
                            /\ PAYMENT_INTENTS[i].user_id = user_id
                            /\ PAYMENT_INTENTS[i].status = "confirmed"
                            /\ PAYMENT_INTENTS[i].amount + MILLI >= cart_total(CART[user_id])
                      /\ Len(e.ORDERS) = Len(ORDERS) + 1
                      /\ SubSeq(e.ORDERS, 1, Len(ORDERS)) = ORDERS
                      /\ e.ORDERS[Len(e.ORDERS)].user_id = user_id
                      /\ e.ORDERS[Len(e.ORDERS)].items = CART[user_id]
                      /\ e.CART = [CART EXCEPT ![user_id] = <<>>]
                      /\ e.resp.body.payment_status = "confirmed"
                 ELSE e.CART = CART /\ e.ORDERS = ORDERS)
    /\ [][(last' # last /\ last'.op = "checkout" /\ ~CheckedOut(last'.resp))
             => UNCHANGED <<CART, ORDERS>>]_vars

\* a checkout with a confirmed intent of 100.0 has just produced an order of
\* 100.0005
C25_Witness ==
    /\ last.op = "checkout"
    /\ CheckedOut(last.resp)
    /\ last.resp.body.payment_status = "confirmed"
    /\ ORDERS # <<>>
    /\ ORDERS[Len(ORDERS)].total_price = 100 * UNIT + 5
    /\ \E i \in DOMAIN PAYMENT_INTENTS :
          /\ PAYMENT_INTENTS[i].intent_id = last.presented.payload.payment_intent_id
          /\ PAYMENT_INTENTS[i].amount = 100 * UNIT

-----------------------------------------------------------------------------
(* Properties of the chat *)

\* the websockets that are registered, in their receive loop, with their client
OpenConnections ==
    {w \in DOMAIN websockets :
        /\ websockets[w].state = "receiving"
        /\ websockets[w].peer = "open"
        /\ websockets[w].user_id \in DOMAIN active_connections
        /\ \E i \in DOMAIN active_connections[websockets[w].user_id] :
              active_connections[websockets[w].user_id][i] = w}

\* C26 as stated: every message with non-empty content that the client of an
\* accepted websocket of u1 sends with receiver_id = u2 is appended once to the
\* message store with sender_id = u1, and is delivered as a "message" envelope
\* to every open connection of u1 and of u2 and to no other connection.
C26_Original ==
    \A websocket \in DOMAIN websockets, receiver_id \in 1..3,
       content \in {<<"h", "i">>, <<" ", "h", "i">>, <<" ">>},
       raising \in SUBSET {w \in DOMAIN websockets : websockets[w].peer = "gone"} :
        LET u1 == websockets[websocket].user_id
            payload == << <<(<<"r", "e", "c", "e", "i", "v", "e", "r", "_", "i", "d">>),
                            [int |-> receiver_id]>>,
                          <<(<<"c", "o", "n", "t", "e", "n", "t">>), [str |-> content]>> >>
            e == websocket_chat(websocket, payload, raising, active_connections,
                                websockets, MESSAGES)
            sent == e.MESSAGES[Len(e.MESSAGES)]
        IN  (/\ websockets[websocket].state = "receiving"
             /\ websockets[websocket].peer = "open"
             /\ content # <<>>)
            => /\ Len(e.MESSAGES) = Len(MESSAGES) + 1
               /\ SubSeq(e.MESSAGES, 1, Len(MESSAGES)) = MESSAGES
               /\ sent.sender_id = u1
               /\ sent.receiver_id = receiver_id
               /\ \A i \in DOMAIN MESSAGES : MESSAGES[i].id # sent.id
               /\ \A w \in DOMAIN websockets :
                     e.websockets[w].received =
                         IF /\ w \in OpenConnections
                            /\ websockets[w].user_id \in {u1, receiver_id}
                         THEN Append(websockets[w].received,
                                     [type |-> "message", message |-> sent])
                         ELSE websockets[w].received

\* C26: as above, for content that is non-empty once stripped of surrounding
\* whitespace (websocket_chat strips the content before it tests it).
C26_ChatDelivery ==
    \A websocket \in DOMAIN websockets, receiver_id \in 1..3,
       content \in {<<"h", "i">>, <<" ", "h", "i">>, <<" ">>},
       raising \in SUBSET {w \in DOMAIN websockets : websockets[w].peer = "gone"} :
        LET u1 == websockets[websocket].user_id
            payload == << <<(<<"r", "e", "c", "e", "i", "v", "e", "r", "_", "i", "d">>),
                            [int |-> receiver_id]>>,
                          <<(<<"c", "o", "n", "t", "e", "n", "t">>), [str |-> content]>> >>
            e == websocket_chat(websocket, payload, raising, active_connections,
                                websockets, MESSAGES)
            sent == e.MESSAGES[Len(e.MESSAGES)]
        IN  (/\ websockets[websocket].state = "receiving"
             /\ websockets[websocket].peer = "open"
             /\ strip(content) # <<>>)
            => /\ Len(e.MESSAGES) = Len(MESSAGES) + 1
               /\ SubSeq(e.MESSAGES, 1, Len(MESSAGES)) = MESSAGES
               /\ sent.sender_id = u1
               /\ sent.receiver_id = receiver_id
               /\ \A i \in DOMAIN MESSAGES : MESSAGES[i].id # sent.id
               /\ \A w \in DOMAIN websockets :
                     e.websockets[w].received =
                         IF /\ w \in OpenConnections
                            /\ websockets[w].user_id \in {u1, receiver_id}
                         THEN Append(websockets[w].received,
                                     [type |-> "message", message |-> sent])
                         ELSE websockets[w].received

\* u1 and u2 each hold an open websocket, and a message of u1 to u2 has just
\* been stored and received by both
C26_Witness ==
    /\ last.op = "receive_json"
    /\ Len(MESSAGES) = 4
    /\ \E w1, w2 \in OpenConnections :
          /\ w1 = last.presented.websocket
          /\ websockets[w1].user_id # websockets[w2].user_id
          /\ MESSAGES[4].sender_id = websockets[w1].user_id
          /\ MESSAGES[4].receiver_id = websockets[w2].user_id
          /\ \A w \in {w1, w2} :
                websockets[w].received[Len(websockets[w].received)]
                    = [type |-> "message", message |-> MESSAGES[4]]

-----------------------------------------------------------------------------
(* Properties of the refresh endpoint and the token codec, continued *)

\* C27: refresh(t), for a t that the ledger accepts and that decodes but whose
\* type claim is not "refresh", fails with WrongTokenType ("Invalid token
\* type.") and revokes nothing: the ledger is as it was and still accepts t.
C27_WrongTypeNotRevoked ==
    \A raw \in Presentable, d \in Delays :
        LET t == strip_token(raw)
            decoded == decode_token(t, now)
            e == refresh_token(raw, users, refresh_tokens, now, d, Cardinality(issued))
        IN  (/\ is_refresh_token_valid(refresh_tokens, t, now)
             /\ decoded.ok
             /\ Get(decoded.payload, "type", "None") # "refresh")
            => /\ e.resp = WrongTokenType
               /\ e.minted = {}
               /\ e.ledger = refresh_tokens
               /\ is_refresh_token_valid(e.ledger, t, e.clk)

\* an access token that the ledger holds and accepts has just been refused by
\* refresh as of the wrong type, and the ledger still accepts it
C27_Witness ==
    /\ last.op = "refresh"
    /\ last.resp = WrongTokenType
    /\ last.presented \in AccessTokensOf(issued)
    /\ is_refresh_token_valid(refresh_tokens, last.presented, now)

\* C28 as stated: decode answers "Malformed token" for a string that does not
\* split into three parts, whatever else is wrong with it; a three-part token
\* whose signature part is not the one _sign makes fails with "Invalid token
\* signature" at every clock value, before or after its exp and with whatever
\* payload; only a rightly signed token has its exp read.
C28_DecodeOrder ==
    \A t \in issued :
        LET exp == Get(t.body.claims, "exp", 0)
            WronglySigned == {Forged(t), Padded(t), [t EXCEPT !.lpad = TRUE],
                              [Forged(t) EXCEPT !.body.claims.exp = 0],
                              [Forged(t) EXCEPT !.ascii = FALSE]}
        IN  \A clk \in {now, exp - 1, exp, exp + 1} :
               /\ \A w \in WronglySigned \cup {t} :
                     \A n \in {1, 2, 4} :
                        decode_token([w EXCEPT !.nparts = n], clk).err = "Malformed token"
               /\ \A w \in WronglySigned :
                     /\ decode_token(w, clk).exc = "ValueError"
                     /\ decode_token(w, clk).err = "Invalid token signature"
               /\ decode_token(t, clk).ok = (clk < exp)
               /\ ~decode_token(t, clk).ok => decode_token(t, clk).err = "Token expired"

\* C28 for signature parts of ASCII characters: the same order of checks
C28_DecodeOrderAscii ==
    \A t \in issued :
        LET exp == Get(t.body.claims, "exp", 0)
            WronglySigned == {Forged(t), Padded(t), [t EXCEPT !.lpad = TRUE],
                              [Forged(t) EXCEPT !.body.claims.exp = 0]}
        IN  \A clk \in {now, exp - 1, exp, exp + 1} :
               /\ \A w \in WronglySigned \cup {t} :
                     \A n \in {1, 2, 4} :
                        decode_token([w EXCEPT !.nparts = n], clk).err = "Malformed token"
               /\ \A w \in WronglySigned :
                     /\ decode_token(w, clk).exc = "ValueError"
                     /\ decode_token(w, clk).err = "Invalid token signature"
               /\ decode_token(t, clk).ok = (clk < exp)
               /\ ~decode_token(t, clk).ok => decode_token(t, clk).err = "Token expired"

\* C29: every minted token carries sub = str(id) of the account it was minted
\* for, the type tag of the issuing operation ("access" from
\* create_access_token, "refresh" from create_refresh_token), and
\* exp = iat + 1800 for an access token, exp = iat + 604800 for a refresh
\* token; so exp > iat.
C29_MintedClaims ==
    /\ \A t \in issued :
          LET c == t.body.claims IN
          /\ t.body.json = "dict"
          /\ \E i \in DOMAIN users : users[i].email = c.email /\ c.sub = str(users[i].id)
          /\ c.type \in {"access", "refresh"}
          /\ c.type = "access" => c.exp = c.iat + 1800
          /\ c.type = "refresh" => c.exp = c.iat + 604800
          /\ c.exp > c.iat
    /\ \A i \in DOMAIN users :
          LET a == create_access_token(users[i].id, users[i].email, now, 1).body.claims
              r == create_refresh_token(users[i].id, users[i].email, now, 2).body.claims
          IN  /\ a.type = "access" /\ a.sub = str(users[i].id)
              /\ a.iat = now /\ a.exp = a.iat + 1800
              /\ r.type = "refresh" /\ r.sub = str(users[i].id)
              /\ r.iat = now /\ r.exp = r.iat + 604800

\* register has just minted an access and a refresh token for a new account,
\* after sessions of other accounts were minted
C29_Witness ==
    /\ last.op = "register"
    /\ Succeeded(last.resp)
    /\ last.resp.access_token \in AccessTokensOf(issued)
    /\ last.resp.refresh_token \in RefreshTokensOf(issued)
    /\ last.resp.access_token.body.claims.sub = str(last.resp.user.id)
    /\ \E t \in issued : t.body.claims.sub # str(last.resp.user.id)

\* C30: revoke is idempotent and total.  For every token string, revoking it
\* twice leaves the ledger that revoking it once leaves; revoke creates no
\* record and touches no record of another token; and for a token without a
\* record it leaves the ledger as it is.
C30_RevokeIdempotent ==
    \A token \in Presentable \cup {r.token : r \in refresh_tokens} \cup {NonAsciiSignature} :
        LET once == revoke_refresh_token(refresh_tokens, token)
            twice == revoke_refresh_token(once, token)
        IN  /\ twice = once
            /\ {r.token : r \in once} = {r.token : r \in refresh_tokens}
            /\ \A r \in once : r.token = token => r.revoked = 1
            /\ {r \in once : r.token # token} = {r \in refresh_tokens : r.token # token}
            /\ RowsOf(refresh_tokens, token) = {} => once = refresh_tokens

\* a revoke call has just been made on a ledger that holds a revoked record
\* and a record that is not revoked
C30_Witness ==
    /\ last.op = "revoke"
    /\ \E r1, r2 \in refresh_tokens : r1.revoked = 1 /\ r2.revoked = 0

-----------------------------------------------------------------------------
(* Properties of the ledger and of the session protocol, continued *)

\* C31: save is an upsert.  Whether or not a record of the token exists, save
\* leaves exactly one record of it, with the given user_id and expires_at and
\* revoked = 0, and every record of every other token as it was; saving the
\* same arguments twice leaves the validity that saving once leaves, at every
\* clock value.
C31_SaveUpsert ==
    \A token \in Presentable \cup {r.token : r \in refresh_tokens},
       user_id \in {1, 2}, expires_at \in {now, now + 1, now + REFRESH_TOKEN_TTL_SECONDS} :
        LET once == save_refresh_token(refresh_tokens, token, user_id, expires_at, now)
            twice == save_refresh_token(once, token, user_id, expires_at, now + 1)
        IN  /\ Cardinality(RowsOf(once, token)) = 1
            /\ \A r \in RowsOf(once, token) :
                  r.user_id = user_id /\ r.expires_at = expires_at /\ r.revoked = 0
            /\ {r \in once : r.token # token} = {r \in refresh_tokens : r.token # token}
            /\ Cardinality(RowsOf(twice, token)) = 1
            /\ \A t \in {r.token : r \in twice} \cup {token}, clk \in ClockValues \cup {expires_at} :
                  is_refresh_token_valid(twice, t, clk) = is_refresh_token_valid(once, t, clk)

\* a direct save has just overwritten the record that refresh wrote for the
\* refresh token it minted
C31_Witness ==
    /\ last.op = "save"
    /\ \E row \in refresh_tokens, a \in AccessTokensOf(issued) :
          /\ row.token \in RefreshTokensOf(issued)
          /\ row.token.body.claims.jti = a.body.claims.jti + 1
          /\ row.expires_at = now + 1
          /\ row.revoked = 0

\* C32: every ledger record written by _build_auth_response has an expires_at
\* not below the exp embedded in its token (the token's clock read comes
\* first), so while the embedded exp lies in the future the ledger does not
\* reject the token as expired: a record that is not revoked is accepted at
\* every clock value below exp.
C32_LedgerOutlivesToken ==
    /\ \A row \in refresh_tokens :
          LET exp == Get(row.token.body.claims, "exp", 0) IN
          /\ row.expires_at >= exp
          /\ \A clk \in {now, exp - 1} :
                (clk < exp /\ row.revoked = 0)
                    => is_refresh_token_valid(refresh_tokens, row.token, clk)
    /\ \A i \in DOMAIN users, d \in Delays :
          LET e == _build_auth_response("Signed in", _public_user(users[i]), users,
                                        refresh_tokens, now, d, Cardinality(issued))
          IN  \A row \in e.ledger :
                 row.token = e.resp.refresh_token
                     => /\ row.expires_at = e.resp.refresh_token.body.claims.exp + d
                        /\ row.expires_at >= e.resp.refresh_token.body.claims.exp

\* the ledger accepts a refresh token, written with a later clock read than the
\* token's, that decode rejects as expired
C32_Witness ==
    \E row \in refresh_tokens :
        /\ row.expires_at > row.token.body.claims.exp
        /\ is_refresh_token_valid(refresh_tokens, row.token, now)
        /\ decode_token(row.token, now).err = "Token expired"

\* C33: after any sequence of register, login and refresh operations every
\* ledger record holds a refresh-type token minted by the issuer, the record's
\* user_id is the sub claim of its token, and no access token has a record.
C33_LedgerHoldsMintedRefresh ==
    /\ \A row \in refresh_tokens :
          /\ row.token \in RefreshTokensOf(issued)
          /\ ValidlySigned(row.token)
          /\ row.token.body.claims.sub = str(row.user_id)
    /\ \A a \in AccessTokensOf(issued) : RowsOf(refresh_tokens, a) = {}
    /\ \A i \in DOMAIN users, d \in Delays :
          LET e == _build_auth_response("Signed in", _public_user(users[i]), users,
                                        refresh_tokens, now, d, Cardinality(issued))
          IN  /\ RowsOf(e.ledger, e.resp.access_token) = {}
              /\ \A row \in RowsOf(e.ledger, e.resp.refresh_token) :
                    e.resp.refresh_token.body.claims.sub = str(row.user_id)

\* a refresh has rotated a session next to another one: the ledger holds
\* several records, a revoked one among them, and access tokens are in use
C33_Witness ==
    /\ last.op = "refresh"
    /\ Succeeded(last.resp)
    /\ \E r1 \in refresh_tokens, r2 \in refresh_tokens :
          /\ r1.revoked = 1
          /\ r2.revoked = 0
          /\ r2.token = last.resp.refresh_token
    /\ last.resp.access_token \in AccessTokensOf(issued)
    /\ RowsOf(refresh_tokens, last.resp.access_token) = {}

\* C34: an access token is never exchanged for a new session.  For every access
\* token minted through register, login and refresh, padded or not, at any time,
\* refresh fails at the ledger check with "Invalid refresh token." and changes
\* nothing; and no refresh call with a string made of issued tokens ends in the
\* "Invalid token type." branch.
C34_AccessNeverExchanged ==
    /\ \A a \in AccessTokensOf(issued), d \in Delays :
          /\ ~is_refresh_token_valid(refresh_tokens, a, now)
          /\ \A raw \in {a, Padded(a)} :
                LET e == refresh_token(raw, users, refresh_tokens, now, d,
                                       Cardinality(issued))
                IN  /\ e.resp = InvalidRefreshToken
                    /\ e.ledger = refresh_tokens
                    /\ e.users = users
                    /\ e.minted = {}
                    /\ e.clk = now
    /\ \A raw \in Presentable \cup {Padded(t) : t \in issued} :
          refresh_token(raw, users, refresh_tokens, now, 0, Cardinality(issued)).resp
              # WrongTokenType
    /\ last.op = "refresh" => last.resp # WrongTokenType

\* an unexpired access token of a signed-in account was presented to refresh and
\* refused at the ledger check
C34_Witness ==
    /\ last.op = "refresh"
    /\ last.presented \in AccessTokensOf(issued)
    /\ decode_token(last.presented, now).ok
    /\ last.resp = InvalidRefreshToken
    /\ \E row \in refresh_tokens :
          /\ row.revoked = 0
          /\ row.token.body.claims.sub = last.presented.body.claims.sub

\* the change one step makes to the ledger, where the refresh call of the step
\* counts as having presented the token of a record when the presented string
\* is that token (exact), or when its whitespace-stripped form is:
\* a record that changes belongs to the presented token of a refresh call and
\* changes from not revoked to revoked only; at most one record is added, not
\* revoked, for a token minted in the step; a register or login that mints
\* tokens adds exactly one record and changes none.
LedgerFrame(exact) ==
    LET presented(row) == IF exact THEN last'.presented = row.token
                          ELSE strip_token(last'.presented) = row.token
        gone == refresh_tokens \ refresh_tokens'
        new == refresh_tokens' \ refresh_tokens
        fresh == {r \in new : RowsOf(refresh_tokens, r.token) = {}}
    IN  /\ \A row \in gone :
              /\ last'.op = "refresh"
              /\ presented(row)
              /\ row.revoked = 0
              /\ [row EXCEPT !.revoked = 1] \in refresh_tokens'
        /\ new \ fresh = {[row EXCEPT !.revoked = 1] : row \in gone}
        /\ Cardinality(fresh) <= 1
        /\ \A r \in fresh : r.revoked = 0 /\ r.token \in issued' \ issued
        /\ (last'.op \in {"register", "login"} /\ issued' # issued)
              => gone = {} /\ Cardinality(fresh) = 1
        /\ issued' = issued => fresh = {}

\* C35 (as stated): register and login only add one new record and alter no
\* existing one, and a record changes, to revoked, only through a refresh call
\* that presented exactly the token string of that record.
C35_Original ==
    [][LedgerFrame(TRUE)]_vars

\* C35 (amended): the same, with the record that a refresh call may revoke being
\* the one of the whitespace-stripped form of the presented string.
C35_LedgerFrame ==
    [][LedgerFrame(FALSE)]_vars

\* a second login of one account has added a record next to the first one, and
\* both refresh tokens of the account are valid together
C35_Witness ==
    /\ last.op = "login"
    /\ Succeeded(last.resp)
    /\ \E r1 \in refresh_tokens, r2 \in refresh_tokens :
          /\ r1.token # r2.token
          /\ r1.user_id = r2.user_id
          /\ r2.token = last.resp.refresh_token
          /\ is_refresh_token_valid(refresh_tokens, r1.token, now)
          /\ is_refresh_token_valid(refresh_tokens, r2.token, now)

----------------------------------------------------------------------------
(* Properties of the shop and of the chat, continued *)

C37_IntentLifecycle ==
    /\ [](/\ \A i \in DOMAIN PAYMENT_INTENTS :
                PAYMENT_INTENTS[i].status \in {"requires_confirmation", "confirmed"}
          /\ \A user_id \in DOMAIN users, authorization \in Headers :
                LET who == get_current_user(authorization, users, now) IN
                /\ \A amount \in {0, 1, 100 * UNIT + 49} :
                      LET e == create_payment_intent(
                                   [user_id |-> user_id, amount |-> amount],
                                   authorization, users, now, PAYMENT_INTENTS)
                          n == Len(PAYMENT_INTENTS)
                      IN  /\ Len(e.PAYMENT_INTENTS) \in {n, n + 1}
                          /\ SubSeq(e.PAYMENT_INTENTS, 1, n) = PAYMENT_INTENTS
                          /\ Len(e.PAYMENT_INTENTS) = n + 1 =>
                                /\ e.PAYMENT_INTENTS[n + 1].status = "requires_confirmation"
                                /\ e.PAYMENT_INTENTS[n + 1].confirmed_at = None
                                /\ e.PAYMENT_INTENTS[n + 1].user_id = who.user.id
                                /\ e.resp.body = e.PAYMENT_INTENTS[n + 1]
                /\ \A intent_id \in IntentIds :
                      LET e == confirm_payment_intent(
                                   [intent_id |-> intent_id, user_id |-> user_id],
                                   authorization, users, now, PAYMENT_INTENTS)
                      IN  /\ Len(e.PAYMENT_INTENTS) = Len(PAYMENT_INTENTS)
                          /\ \A i \in DOMAIN PAYMENT_INTENTS :
                                LET old == PAYMENT_INTENTS[i] IN
                                /\ old.status = "confirmed"
                                      => e.PAYMENT_INTENTS[i].status = "confirmed"
                                /\ e.PAYMENT_INTENTS[i] # old =>
                                      /\ old.intent_id = intent_id
                                      /\ who.status = 200
                                      /\ who.user.id = old.user_id
                                      /\ e.PAYMENT_INTENTS[i] =
                                            [old EXCEPT !.status = "confirmed",
                                                        !.confirmed_at = [utcnow |-> now]]
          /\ \A i \in DOMAIN PAYMENT_INTENTS, item \in CartItems, authorization \in Callers :
                LET intent == PAYMENT_INTENTS[i]
                    u == intent.user_id
                    who == get_current_user(authorization, users, now)
                    payload == [address |-> "123 Test Street",
                                payment_intent_id |-> intent.intent_id]
                    cart == [x \in DOMAIN CART \cup {u} |->
                                IF x = u THEN <<item>> ELSE CART[x]]
                    first == checkout(u, payload, authorization, users, now,
                                      cart, ORDERS, PAYMENT_INTENTS)
                    refilled == add_to_cart(u, item, authorization, users, now,
                                            first.CART).CART
                    again == checkout(u, payload, authorization, users, now,
                                      refilled, first.ORDERS, PAYMENT_INTENTS)
                IN  (/\ intent.status = "confirmed"
                     /\ who.status = 200 /\ who.user.id = u
                     /\ cart_total(<<item>>) <= intent.amount) =>
                        /\ CheckedOut(first.resp)
                        /\ first.resp.body.payment_status = "confirmed"
                        /\ CheckedOut(again.resp)
                        /\ again.resp.body.payment_status = "confirmed"
                        /\ Len(again.ORDERS) = Len(ORDERS) + 2)
    /\ [][/\ Len(PAYMENT_INTENTS') >= Len(PAYMENT_INTENTS)
          /\ \A i \in DOMAIN PAYMENT_INTENTS :
                PAYMENT_INTENTS'[i] # PAYMENT_INTENTS[i] =>
                    /\ last'.op = "confirm_payment_intent"
                    /\ last'.presented.intent_id = PAYMENT_INTENTS[i].intent_id
                    /\ last'.presented.user_id = PAYMENT_INTENTS[i].user_id
                    /\ PAYMENT_INTENTS'[i] =
                          [PAYMENT_INTENTS[i] EXCEPT !.status = "confirmed",
                                                     !.confirmed_at = [utcnow |-> now]]
          /\ \A i \in DOMAIN PAYMENT_INTENTS' \ DOMAIN PAYMENT_INTENTS :
                /\ last'.op = "create_payment_intent"
                /\ PAYMENT_INTENTS'[i].status = "requires_confirmation"
                /\ PAYMENT_INTENTS'[i].user_id = last'.presented.user_id]_vars

\* a checkout has used a confirmed intent, which is still there and confirmed,
\* and the same intent pays a second checkout of the same cart
C37_Witness ==
    /\ last.op = "checkout"
    /\ CheckedOut(last.resp)
    /\ last.resp.body.payment_status = "confirmed"
    /\ Len(ORDERS) = 1
    /\ \E i \in DOMAIN PAYMENT_INTENTS, authorization \in Callers :
          LET intent == PAYMENT_INTENTS[i]
              refilled == add_to_cart(intent.user_id, ORDERS[1].items[1], authorization,
                                      users, now, CART)
              again == checkout(intent.user_id, last.presented.payload, authorization,
                                users, now, refilled.CART, ORDERS, PAYMENT_INTENTS)
          IN  /\ intent.intent_id = last.presented.payload.payment_intent_id
              /\ intent.status = "confirmed"
              /\ intent.user_id = ORDERS[1].user_id
              /\ ORDERS[1].total_price <= intent.amount
              /\ CheckedOut(again.resp)
              /\ again.resp.body.payment_status = "confirmed"
              /\ Len(again.ORDERS) = 2

====
